---- MODULE Spec2Model ----
(***************************************************************************)
(* Geographic-name reconciliation scripts of the repository:               *)
(*   scripts/generate_activos_comparado.py   (generar_comparado)           *)
(*   scripts/fuzzy_normalize_activos.py      (fuzzy_normalize)             *)
(*   scripts/apply_manual_and_recompare.py   (apply_manual_and_recompare)  *)
(*   scripts/normalize_activos.py            (plan_replacements)           *)
(* A text is a sequence of characters; a character is a one-letter string, *)
(* an accented letter being written with a mark after it ("a'" is a-acute, *)
(* "u:" is u-diaeresis, "n~" is n-tilde, "o/" is o-slash).                  *)
(***************************************************************************)
EXTENDS Integers, Sequences, FiniteSets, TLC

\* ------------------------------------------------------------------------
\* Characters
\* ------------------------------------------------------------------------
LowerLetters ==
    {"a","b","c","d","e","f","g","h","i","j","k","l","m",
     "n","o","p","q","r","s","t","u","v","w","x","y","z"}

Digits == {"0","1","2","3","4","5","6","7","8","9"}

\* str.lower() on the ASCII capitals
ToLower ==
    ("A" :> "a") @@ ("B" :> "b") @@ ("C" :> "c") @@ ("D" :> "d") @@
    ("E" :> "e") @@ ("F" :> "f") @@ ("G" :> "g") @@ ("H" :> "h") @@
    ("I" :> "i") @@ ("J" :> "j") @@ ("K" :> "k") @@ ("L" :> "l") @@
    ("M" :> "m") @@ ("N" :> "n") @@ ("O" :> "o") @@ ("P" :> "p") @@
    ("Q" :> "q") @@ ("R" :> "r") @@ ("S" :> "s") @@ ("T" :> "t") @@
    ("U" :> "u") @@ ("V" :> "v") @@ ("W" :> "w") @@ ("X" :> "x") @@
    ("Y" :> "y") @@ ("Z" :> "z")

\* unicodedata.normalize("NFKD", ch).encode("ascii", "ignore"): the base
\* letter of a decomposable accented letter
Deaccent ==
    ("a'" :> "a") @@ ("e'" :> "e") @@ ("i'" :> "i") @@ ("o'" :> "o") @@
    ("u'" :> "u") @@ ("u:" :> "u") @@ ("n~" :> "n") @@
    ("A'" :> "A") @@ ("E'" :> "E") @@ ("I'" :> "I") @@ ("O'" :> "O") @@
    ("U'" :> "U")

\* non-ASCII letters without a decomposition: dropped by encode(.., "ignore")
Undecomposable == {"o/"}

\* ord(ch)
CodePoint ==
    ("a" :> 97) @@ ("b" :> 98) @@ ("c" :> 99) @@ ("d" :> 100) @@
    ("e" :> 101) @@ ("f" :> 102) @@ ("g" :> 103) @@ ("h" :> 104) @@
    ("i" :> 105) @@ ("j" :> 106) @@ ("k" :> 107) @@ ("l" :> 108) @@
    ("m" :> 109) @@ ("n" :> 110) @@ ("o" :> 111) @@ ("p" :> 112) @@
    ("q" :> 113) @@ ("r" :> 114) @@ ("s" :> 115) @@ ("t" :> 116) @@
    ("u" :> 117) @@ ("v" :> 118) @@ ("w" :> 119) @@ ("x" :> 120) @@
    ("y" :> 121) @@ ("z" :> 122) @@
    ("A" :> 65) @@ ("B" :> 66) @@ ("C" :> 67) @@ ("D" :> 68) @@
    ("E" :> 69) @@ ("F" :> 70) @@ ("G" :> 71) @@ ("H" :> 72) @@
    ("I" :> 73) @@ ("J" :> 74) @@ ("K" :> 75) @@ ("L" :> 76) @@
    ("M" :> 77) @@ ("N" :> 78) @@ ("O" :> 79) @@ ("P" :> 80) @@
    ("Q" :> 81) @@ ("R" :> 82) @@ ("S" :> 83) @@ ("T" :> 84) @@
    ("U" :> 85) @@ ("V" :> 86) @@ ("W" :> 87) @@ ("X" :> 88) @@
    ("Y" :> 89) @@ ("Z" :> 90) @@
    ("0" :> 48) @@ ("1" :> 49) @@ ("2" :> 50) @@ ("3" :> 51) @@
    ("4" :> 52) @@ ("5" :> 53) @@ ("6" :> 54) @@ ("7" :> 55) @@
    ("8" :> 56) @@ ("9" :> 57) @@
    (" " :> 32) @@ ("." :> 46) @@ ("-" :> 45) @@
    ("a'" :> 225) @@ ("e'" :> 233) @@ ("i'" :> 237) @@ ("o'" :> 243) @@
    ("u'" :> 250) @@ ("u:" :> 252) @@ ("n~" :> 241) @@ ("o/" :> 248) @@
    ("A'" :> 193) @@ ("E'" :> 201) @@ ("I'" :> 205) @@ ("O'" :> 211) @@
    ("U'" :> 218)

Capitals == DOMAIN ToLower
Accented == DOMAIN Deaccent

\* NFKD + encode("ascii","ignore") + lower() of one character: the ASCII
\* character it leaves, or "" when it leaves none
FoldChar(c) ==
    IF c \in Undecomposable THEN ""
    ELSE LET b == IF c \in Accented THEN Deaccent[c] ELSE c
         IN  IF b \in Capitals THEN ToLower[b] ELSE b

\* the characters of a text that are left
Kept(s) == SelectSeq(s, LAMBDA c : c # "")

Fold(s) == Kept([i \in 1..Len(s) |-> FoldChar(s[i])])

\* str.strip() (the only whitespace of the alphabet is the space)
Strip(s) ==
    LET ns == {i \in 1..Len(s) : s[i] # " "}
    IN  IF ns = {} THEN << >>
        ELSE SubSeq(s, CHOOSE i \in ns : \A j \in ns : i <= j,
                       CHOOSE i \in ns : \A j \in ns : j <= i)

\* " ".join(text.split()): the ends trimmed, each run of spaces cut down
\* to its first space
JoinSplit(s) ==
    LET t == Strip(s)
    IN  Kept([i \in 1..Len(t) |->
                 IF t[i] = " " /\ t[i - 1] = " " THEN "" ELSE t[i]])

\* ch.isalnum() / ch.isalpha() on a folded (ASCII, lower-case) character
Alnum == LowerLetters \cup Digits
IsAlnum(c) == c \in Alnum
IsAlpha(c) == c \in LowerLetters

\* slug of fuzzy_normalize_activos, generate_activos_comparado and
\* apply_manual_and_recompare
slug(s) ==
    LET f == Fold(Strip(s))
    IN  JoinSplit([i \in 1..Len(f) |-> IF IsAlnum(f[i]) \/ f[i] = " " THEN f[i] ELSE " "])

\* _letters: the folded letters of a text
_letters(s) ==
    LET f == Fold(s)
    IN  SelectSeq(f, IsAlpha)

\* Python's str comparison (code-point lexicographic): s < t
RECURSIVE StrLess(_, _)
StrLess(s, t) ==
    IF t = << >> THEN FALSE
    ELSE IF s = << >> THEN TRUE
    ELSE IF CodePoint[Head(s)] # CodePoint[Head(t)]
         THEN CodePoint[Head(s)] < CodePoint[Head(t)]
         ELSE StrLess(Tail(s), Tail(t))

\* ------------------------------------------------------------------------
\* difflib.SequenceMatcher (no junk; texts shorter than the autojunk limit)
\* ------------------------------------------------------------------------
\* length of the common run of a[i+1..ahi] and b[j+1..bhi]
RECURSIVE RunLen(_, _, _, _, _, _)
RunLen(a, b, i, j, ahi, bhi) ==
    IF i < ahi /\ j < bhi /\ a[i + 1] = b[j + 1]
    THEN 1 + RunLen(a, b, i + 1, j + 1, ahi, bhi)
    ELSE 0

\* the length of the common run that starts at every pair of positions of
\* a[alo..ahi) and b[blo..bhi)
RunTable(a, b, alo, ahi, blo, bhi) ==
    [p \in (alo..(ahi - 1)) \X (blo..(bhi - 1)) |->
        RunLen(a, b, p[1], p[2], ahi, bhi)]

\* the start of the block find_longest_match returns: k maximal, then i
\* minimal, then j minimal
BestStart(L, Hits) ==
    CHOOSE p \in Hits :
       \A q \in Hits :
          \/ L[p] > L[q]
          \/ /\ L[p] = L[q]
             /\ \/ p[1] < q[1]
                \/ p[1] = q[1] /\ p[2] <= q[2]

\* the block <<i, j, k>> that starts at p
Block(L, p) == << p[1], p[2], L[p] >>

LongestIn(L, Hits, alo, blo) ==
    IF Hits = {} THEN << alo, blo, 0 >> ELSE Block(L, BestStart(L, Hits))

LongestOf(L, alo, blo) == LongestIn(L, {p \in DOMAIN L : L[p] > 0}, alo, blo)

\* SequenceMatcher.find_longest_match: <<i, j, k>> (0-based, half-open
\* ranges as in difflib)
find_longest_match(a, b, alo, ahi, blo, bhi) ==
    LongestOf(RunTable(a, b, alo, ahi, blo, bhi), alo, blo)

\* sum of the sizes of SequenceMatcher.get_matching_blocks: the longest
\* block x, then the blocks to its left and to its right
RECURSIVE Matches(_, _, _, _, _, _)
MatchesAround(a, b, alo, ahi, blo, bhi, x) ==
    IF x[3] = 0 THEN 0
    ELSE x[3]
         + (IF alo < x[1] /\ blo < x[2]
            THEN Matches(a, b, alo, x[1], blo, x[2]) ELSE 0)
         + (IF x[1] + x[3] < ahi /\ x[2] + x[3] < bhi
            THEN Matches(a, b, x[1] + x[3], ahi, x[2] + x[3], bhi) ELSE 0)

Matches(a, b, alo, ahi, blo, bhi) ==
    MatchesAround(a, b, alo, ahi, blo, bhi,
                  find_longest_match(a, b, alo, ahi, blo, bhi))

\* SequenceMatcher(None, a, b).ratio() as the fraction <<num, den>>
ratio(a, b) ==
    IF Len(a) + Len(b) = 0 THEN << 1, 1 >>
    ELSE << 2 * Matches(a, b, 0, Len(a), 0, Len(b)), Len(a) + Len(b) >>

\* r >= n/d and r > q on fractions
FracGE(r, n, d) == r[1] * d >= n * r[2]
FracGT(r, q) == r[1] * q[2] > q[1] * r[2]
FracEQ(r, q) == r[1] * q[2] = q[1] * r[2]

\* the best of the possibilities Ok by (score, text), R being the scores
BestClose(possibilities, R, Ok) ==
    IF Ok = {} THEN << >>
    ELSE << possibilities[CHOOSE i \in Ok :
                             \A j \in Ok :
                                \/ FracGT(R[i], R[j])
                                \/ /\ FracEQ(R[i], R[j])
                                   /\ ~ StrLess(possibilities[i], possibilities[j])] >>

CloseOnes(possibilities, R, cn, cd) ==
    BestClose(possibilities, R, {i \in DOMAIN R : FracGE(R[i], cn, cd)})

\* difflib.get_close_matches(word, possibilities, n=1, cutoff=cn/cd): the
\* possibilities scoring at least the cutoff, best first by (score, text);
\* a sequence of at most one text
get_close_matches(word, possibilities, cn, cd) ==
    CloseOnes(possibilities,
              [i \in 1..Len(possibilities) |-> ratio(possibilities[i], word)],
              cn, cd)

\* ------------------------------------------------------------------------
\* Texts of the alias rules (fuzzy_normalize_activos.apply_alias)
\* ------------------------------------------------------------------------
S_Cesar == <<"C", "e", "s", "a", "r">>
S_CesarAcc == <<"C", "e'", "s", "a", "r">>
S_Togui1 == <<"T", "o", "g", "u:", "i'">>
S_Togui == <<"T", "o", "g", "u", "i'">>
S_Bolivar == <<"B", "o", "l", "i'", "v", "a", "r">>
S_Cartagena == <<"C", "a", "r", "t", "a", "g", "e", "n", "a">>
S_CartagenaDeIndias ==
    <<"C", "a", "r", "t", "a", "g", "e", "n", "a", " ", "d", "e", " ",
      "I", "n", "d", "i", "a", "s">>
S_SantaRosaLimaNorte ==
    <<"S", "a", "n", "t", "a", " ", "R", "o", "s", "a", " ", "d", "e", " ",
      "L", "i", "m", "a", " ", "N", "o", "r", "t", "e">>
S_SantaRosa == <<"S", "a", "n", "t", "a", " ", "R", "o", "s", "a">>
S_DistritoCapital ==
    <<"D", "i", "s", "t", "r", "i", "t", "o", " ", "C", "a", "p", "i", "t", "a", "l">>
S_BogotaDC == <<"B", "o", "g", "o", "t", "a'", " ", "D", ".", "C", ".">>
S_Bogota == <<"B", "o", "g", "o", "t", "a'">>
S_Cundinamarca == <<"C", "u", "n", "d", "i", "n", "a", "m", "a", "r", "c", "a">>
S_ValleDelCauva ==
    <<"V", "a", "l", "l", "e", " ", "d", "e", "l", " ", "C", "a", "u", "v", "a">>
S_ValleDelCauca ==
    <<"V", "a", "l", "l", "e", " ", "d", "e", "l", " ", "C", "a", "u", "c", "a">>
S_SantiagoDeCali ==
    <<"S", "a", "n", "t", "i", "a", "g", "o", " ", "d", "e", " ", "C", "a", "l", "i">>
S_Cali == <<"C", "a", "l", "i">>
L_bogotadc == <<"b", "o", "g", "o", "t", "a", "d", "c">>
L_bogota == <<"b", "o", "g", "o", "t", "a">>
L_bogotad == <<"b", "o", "g", "o", "t", "a", "d">>
L_bogotdc == <<"b", "o", "g", "o", "t", "d", "c">>
L_santiagodecali ==
    <<"s", "a", "n", "t", "i", "a", "g", "o", "d", "e", "c", "a", "l", "i">>
L_cali == <<"c", "a", "l", "i">>

\* the slugs the rules compare with
SlugCesar == slug(S_Cesar)
SlugTogui == {slug(S_Togui1), slug(S_Togui)}
SlugBolivar == slug(S_Bolivar)
SlugCartagena == slug(S_Cartagena)
LettersCartagena == _letters(S_Cartagena)
SlugSantaRosaLimaNorte == slug(S_SantaRosaLimaNorte)
SlugDistritoCapital == slug(S_DistritoCapital)
SlugBogota == {slug(S_BogotaDC), slug(S_Bogota)}
SlugValle == {slug(S_ValleDelCauva), slug(S_ValleDelCauca)}
SlugCali == {slug(S_SantiagoDeCali), slug(S_Cali)}

\* lines 77-95: the six rules, tested on the slugs of the arguments as
\* passed in, applied in order
AliasRules(depto, muni, dslug, mslug, mlet) ==
    LET d1 == IF dslug = SlugCesar THEN S_CesarAcc ELSE depto
        m1 == IF mslug \in SlugTogui THEN S_Togui ELSE muni
        m2 == IF dslug = SlugBolivar
                 /\ (mslug = SlugCartagena \/ mlet = LettersCartagena)
              THEN S_CartagenaDeIndias ELSE m1
        m3 == IF dslug = SlugBolivar /\ mslug = SlugSantaRosaLimaNorte
              THEN S_SantaRosa ELSE m2
        bog == dslug = SlugDistritoCapital
                 /\ (mslug \in SlugBogota
                       \/ mlet \in {L_bogotadc, L_bogota, L_bogotad, L_bogotdc})
        d2 == IF bog THEN S_Cundinamarca ELSE d1
        m4 == IF bog THEN S_Bogota ELSE m3
        cali == dslug \in SlugValle
                  /\ (mslug \in SlugCali \/ mlet \in {L_santiagodecali, L_cali})
        d3 == IF cali THEN S_ValleDelCauca ELSE d2
        m5 == IF cali THEN S_Cali ELSE m4
    IN  << d3, m5 >>

\* a variant without alias rules
apply_alias_Skip(depto, muni) == << depto, muni >>

\* lines 71-95
apply_alias(depto, muni) ==
    AliasRules(depto, muni, slug(depto), slug(muni), _letters(muni))

\* ------------------------------------------------------------------------
\* Gazetteer loaders
\* ------------------------------------------------------------------------
\* the rows of riesgos.csv the loaders keep: both fields non-empty after
\* strip(), with their slugs
Usable(rows) ==
    LET S == [i \in 1..Len(rows) |->
                 [d |-> Strip(rows[i].d), m |-> Strip(rows[i].m), p |-> rows[i].p]]
        K == SelectSeq(S, LAMBDA r : r.d # << >> /\ r.m # << >>)
    IN  [i \in 1..Len(K) |->
            [d |-> K[i].d, m |-> K[i].m, p |-> K[i].p,
             ds |-> slug(K[i].d), ms |-> slug(K[i].m)]]

\* mapping[(slug(d), slug(m))] = (d, m, p): the last row of a key wins
ExactIndex(u) ==
    [k \in {<< u[i].ds, u[i].ms >> : i \in 1..Len(u)} |->
        LET last == CHOOSE i \in 1..Len(u) :
                       /\ << u[i].ds, u[i].ms >> = k
                       /\ \A j \in 1..Len(u) : << u[j].ds, u[j].ms >> = k => j <= i
        IN  << u[last].d, u[last].m, u[last].p >>]

\* dept_slug_to_name.setdefault(dslug, d): the first row of a slug wins
DeptNames(u) ==
    [s \in {u[i].ds : i \in 1..Len(u)} |->
        LET first == CHOOSE i \in 1..Len(u) :
                        /\ u[i].ds = s
                        /\ \A j \in 1..Len(u) : u[j].ds = s => i <= j
        IN  u[first].d]

\* muni_by_dept.setdefault(dslug, []).append(m): row order, repeats kept
MuniByDept(u) ==
    [s \in {u[i].ds : i \in 1..Len(u)} |->
        LET sel == SelectSeq(u, LAMBDA r : r.ds = s)
        IN  [i \in 1..Len(sel) |-> sel[i].m]]

\* global_muni.setdefault(slug(m), []).append((d, m, p))
GlobalMuni(u) ==
    [s \in {u[i].ms : i \in 1..Len(u)} |->
        LET sel == SelectSeq(u, LAMBDA r : r.ms = s)
        IN  [i \in 1..Len(sel) |-> << sel[i].d, sel[i].m, sel[i].p >>]]

\* load_canonical of fuzzy_normalize_activos (all_pairs is drawn apart)
load_canonical(rows) ==
    LET u == Usable(rows)
    IN  [mapping |-> ExactIndex(u),
         dept_slug_to_name |-> DeptNames(u),
         muni_by_dept |-> MuniByDept(u),
         global_muni |-> GlobalMuni(u)]

\* the orders in which a set can be iterated
Orders(S) ==
    {q \in [1..Cardinality(S) -> S] : \A i, j \in DOMAIN q : i # j => q[i] # q[j]}

\* all_pairs = list({v for v in mapping.values()}): the distinct entries of
\* the exact index in the iteration order of a Python set
AllPairsOrders(mapping) == Orders({mapping[k] : k \in DOMAIN mapping})

\* cargar_canon / load_canon of the two exact-match drivers
cargar_canon(rows) == ExactIndex(Usable(rows))

\* list(d.keys()): the keys of a dict; the keys are distinct, so the order
\* does not change the best (score, key) of get_close_matches
KeyList(f) == CHOOSE q \in Orders(DOMAIN f) : TRUE

\* ------------------------------------------------------------------------
\* Rows and per-row results
\* ------------------------------------------------------------------------
\* a row of the candidate table: name is a pass-through column (the first
\* of KEY_COLS), pais and cmp are the Pais and comparacion columns ("" when
\* the column is missing or blank)
MkRow(n, d, m, p) == [name |-> n, dep |-> d, mun |-> m, pais |-> p, cmp |-> ""]

\* the result of one branch of the row loop: the row as appended to the
\* output, the counter the branch increments, and the tier that decided
Hit(row, inc, tier) == [hit |-> TRUE, row |-> row, inc |-> inc, tier |-> tier]
Miss(row) == [hit |-> FALSE, row |-> row, inc |-> "none", tier |-> "none"]

\* fuzzy_normalize lines 134-147: exact key lookup
ExactTier(row, d, m, cn) ==
    LET key == << slug(d), slug(m) >>
    IN  IF key \in DOMAIN cn
        THEN LET e == cn[key]
             IN  IF d = e[1] /\ m = e[2]
                 THEN Hit([row EXCEPT !.pais = e[3], !.cmp = "sin cambio"],
                          "sc", "exact")
                 ELSE Hit([row EXCEPT !.dep = e[1], !.mun = e[2],
                                      !.pais = e[3], !.cmp = "cambio"],
                          "ch", "exact")
        ELSE Miss(row)

\* the first candidate whose slug is the slug matched (lines 160-164)
BackToCandidate(candidates, slugs, sm) ==
    IF sm = << >> THEN << >>
    ELSE << candidates[CHOOSE i \in 1..Len(candidates) :
                          /\ slugs[i] = sm[1]
                          /\ \A j \in 1..Len(candidates) :
                                slugs[j] = sm[1] => i <= j] >>

\* lines 157-164: the match on the slugs (cutoff 0.7)
SlugMatch(m, candidates, slugs) ==
    BackToCandidate(candidates, slugs, get_close_matches(slug(m), slugs, 7, 10))

DirectOrSlug(m, candidates, direct) ==
    IF direct # << >> THEN direct
    ELSE SlugMatch(m, candidates,
                   [i \in 1..Len(candidates) |-> slug(candidates[i])])

\* lines 155-164 and 186-194: the municipality of a candidate pool closest
\* to m, first on the texts (cutoff 0.8), then on the slugs (cutoff 0.7)
MuniMatch(m, candidates) ==
    DirectOrSlug(m, candidates, get_close_matches(m, candidates, 8, 10))

\* muni_by_dept.get(dslug) or []
Pool(pools, dslug) == IF dslug \in DOMAIN pools THEN pools[dslug] ELSE << >>

\* a subscript of canon with a key it does not hold ends the script
KeyError(row) == Hit(row, "none", "KeyError")

\* lines 168-176 and 197-203: canon[key][2] is the country written
ResolvedAt(row, d_can, m_can, cn, key, tier) ==
    IF key \in DOMAIN cn
    THEN Hit([row EXCEPT !.dep = d_can, !.mun = m_can, !.pais = cn[key][3],
                        !.cmp = "cambio"],
             "ch", tier)
    ELSE KeyError(row)

\* a variant of the lookup that subscripts canon with the display names
Resolved_RawKey(row, d_can, m_can, cn, tier) ==
    ResolvedAt(row, d_can, m_can, cn, << d_can, m_can >>, tier)

\* a fuzzy match rewrites the row with the display names found and the
\* country canon holds for their key (lines 166-176 and 195-203)
Resolved(row, d_can, m_can, cn, tier) ==
    ResolvedAt(row, d_can, m_can, cn, << slug(d_can), slug(m_can) >>, tier)

SameDeptHit(row, d, dslug, match, cn, names) ==
    IF match # << >>
    THEN Resolved(row, IF dslug \in DOMAIN names THEN names[dslug] ELSE d,
                  match[1], cn, "samedept")
    ELSE Miss(row)

SameDeptIn(row, d, m, dslug, candidates, cn, names) ==
    SameDeptHit(row, d, dslug,
                IF candidates # << >> THEN MuniMatch(m, candidates) ELSE << >>,
                cn, names)

\* lines 149-177: fuzzy match inside the department of the same slug
SameDeptTier(row, d, m, cn, names, pools) ==
    SameDeptIn(row, d, m, slug(d), Pool(pools, slug(d)), cn, names)

CrossDeptHit(row, d_can, match, cn) ==
    IF match # << >> THEN Resolved(row, d_can, match[1], cn, "crossdept")
    ELSE Miss(row)

CrossDeptIn(row, m, dmatch, cn, names, pools) ==
    IF dmatch # << >>
    THEN CrossDeptHit(row, names[dmatch[1]],
                      MuniMatch(m, Pool(pools, dmatch[1])), cn)
    ELSE Miss(row)

\* lines 179-204: fuzzy match of the department slug, then of the
\* municipality inside the department found
CrossDeptTier(row, d, m, cn, names, pools) ==
    CrossDeptIn(row, m, get_close_matches(slug(d), KeyList(names), 8, 10),
                cn, names, pools)

\* a variant of the pick that takes the first pair of an ambiguous slug
GlobalUniquePick_Any(row, pairs) ==
    IF Len(pairs) >= 1
    THEN Hit([row EXCEPT !.dep = pairs[1][1], !.mun = pairs[1][2],
                         !.pais = pairs[1][3], !.cmp = "cambio"],
             "ch", "global")
    ELSE Miss(row)

\* lines 209-218: the rows of the municipality slug matched; one alone
\* decides
GlobalUniquePick(row, pairs) ==
    IF Len(pairs) = 1
    THEN Hit([row EXCEPT !.dep = pairs[1][1], !.mun = pairs[1][2],
                         !.pais = pairs[1][3], !.cmp = "cambio"],
             "ch", "global")
    ELSE Miss(row)

GlobalUniqueOf(row, gm, gmatch) ==
    IF gmatch # << >> THEN GlobalUniquePick(row, gm[gmatch[1]]) ELSE Miss(row)

\* lines 206-218: a municipality slug held by a single gazetteer row
GlobalUniqueTier(row, m, gm) ==
    GlobalUniqueOf(row, gm, get_close_matches(slug(m), KeyList(gm), 85, 100))

\* line 229: 0.65 * score_m + 0.35 * score_d as a fraction
Score(score_m, score_d) ==
    << 65 * score_m[1] * score_d[2] + 35 * score_d[1] * score_m[2],
       100 * score_m[2] * score_d[2] >>

\* the combined score of a candidate against one entry (lines 227-229)
EntryScore(ds, ms, e) == Score(ratio(ms, slug(e[2])), ratio(ds, slug(e[1])))

\* lines 224-232: the scan of all_pairs from position i on, keeping the
\* first entry whose score is strictly greater than the best so far;
\* best is a sequence of at most one entry
RECURSIVE BestScan(_, _, _, _, _, _)
ScanStep(ds, ms, pairs, i, best, best_score, score) ==
    IF FracGT(score, best_score)
    THEN BestScan(ds, ms, pairs, i + 1, << pairs[i] >>, score)
    ELSE BestScan(ds, ms, pairs, i + 1, best, best_score)

BestScan(ds, ms, pairs, i, best, best_score) ==
    IF i > Len(pairs) THEN [best |-> best, best_score |-> best_score]
    ELSE ScanStep(ds, ms, pairs, i, best, best_score,
                  EntryScore(ds, ms, pairs[i]))

\* a variant of the acceptance with a strict threshold
Accept_Strict(best_score) == FracGT(best_score, << 62, 100 >>)

\* line 234: best_score >= 0.62
Accept(best_score) == FracGE(best_score, 62, 100)

\* lines 234-242: the best entry is taken when its score is accepted
FallbackPick(row, r) ==
    IF r.best # << >> /\ Accept(r.best_score)
    THEN Hit([row EXCEPT !.dep = r.best[1][1], !.mun = r.best[1][2],
                         !.pais = r.best[1][3], !.cmp = "cambio"],
             "ch", "fallback")
    ELSE Miss(row)

\* lines 220-242: weighted global best match
FallbackTier(row, d, m, pairs) ==
    FallbackPick(row, BestScan(slug(d), slug(m), pairs, 1, << >>, << 0, 1 >>))

\* a variant of the last branch that empties the country of the row
NoMatch_ClearCountry(row) ==
    Hit([row EXCEPT !.pais = "", !.cmp = "no coincidencia"], "nc", "none")

\* lines 244-248: no tier matched; the row keeps its columns
NoMatch(row) == Hit([row EXCEPT !.cmp = "no coincidencia"], "nc", "none")

\* a tier that hit ends the iteration (continue); otherwise the next runs
OrElse(t, next) == IF t.hit THEN t ELSE next

\* a variant of the tiers with the global-unique-municipality tier tried
\* before the cross-department tier
Tiers_GlobalBeforeCross(row, a, cn, names, pools, gm, pairs) ==
    OrElse(ExactTier(row, a[1], a[2], cn),
    OrElse(SameDeptTier(row, a[1], a[2], cn, names, pools),
    OrElse(GlobalUniqueTier(row, a[2], gm),
    OrElse(CrossDeptTier(row, a[1], a[2], cn, names, pools),
    OrElse(FallbackTier(row, a[1], a[2], pairs),
           NoMatch(row))))))

\* lines 134-248: the tiers, in order, on the aliased pair a
Tiers(row, a, cn, names, pools, gm, pairs) ==
    OrElse(ExactTier(row, a[1], a[2], cn),
    OrElse(SameDeptTier(row, a[1], a[2], cn, names, pools),
    OrElse(CrossDeptTier(row, a[1], a[2], cn, names, pools),
    OrElse(GlobalUniqueTier(row, a[2], gm),
    OrElse(FallbackTier(row, a[1], a[2], pairs),
           NoMatch(row))))))

\* lines 127-248: the body of the row loop of fuzzy_normalize
fuzzy_row(row, cn, names, pools, gm, pairs) ==
    Tiers(row, apply_alias(Strip(row.dep), Strip(row.mun)),
          cn, names, pools, gm, pairs)

\* generar_comparado lines 83-103: exact lookup; the department and
\* municipality columns are never rewritten
comparado_row(row, cn) ==
    LET d == Strip(row.dep)
        m == Strip(row.mun)
        key == << slug(d), slug(m) >>
    IN  IF key \notin DOMAIN cn
        THEN Hit([row EXCEPT !.cmp = "no coincidencia"], "nc", "none")
        ELSE LET e == cn[key]
             IN  IF d # e[1] \/ m # e[2]
                 THEN Hit([row EXCEPT !.pais = e[3], !.cmp = "cambio"], "ch", "exact")
                 ELSE Hit([row EXCEPT !.pais = e[3], !.cmp = "sin cambio"], "sc", "exact")

\* apply_manual_and_recompare lines 116-135: exact lookup with write-back
recompare_row(row, cn) ==
    LET d == Strip(row.dep)
        m == Strip(row.mun)
        key == << slug(d), slug(m) >>
    IN  IF key \in DOMAIN cn
        THEN LET e == cn[key]
             IN  IF d = e[1] /\ m = e[2]
                 THEN Hit([row EXCEPT !.pais = e[3], !.cmp = "sin cambio"],
                          "sc", "exact")
                 ELSE Hit([row EXCEPT !.dep = e[1], !.mun = e[2],
                                      !.pais = e[3], !.cmp = "cambio"],
                          "ch", "exact")
        ELSE Hit([row EXCEPT !.cmp = "no coincidencia"], "nc", "none")

\* apply_manual_and_recompare lines 86-88: key -> index of the last row
\* with that key (the key is the tuple of KEY_COLS; name is its only
\* column present in the tables)
build_row_key(row) == row.name

cmp_key_map(rows) ==
    [k \in {build_row_key(rows[i]) : i \in 1..Len(rows)} |->
        CHOOSE i \in 1..Len(rows) :
           /\ build_row_key(rows[i]) = k
           /\ \A j \in 1..Len(rows) : build_row_key(rows[j]) = k => j <= i]

\* lines 101-109: the manual corrections, in file order, written into the
\* rows of the comparado table that share their key
RECURSIVE apply_manual(_, _, _, _)
apply_manual(rows, man, i, kmap) ==
    IF i > Len(man) THEN rows
    ELSE LET key == build_row_key(man[i])
         IN  IF key \in DOMAIN kmap
             THEN apply_manual(
                     [rows EXCEPT ![kmap[key]].dep = Strip(man[i].dep),
                                  ![kmap[key]].mun = Strip(man[i].mun)],
                     man, i + 1, kmap)
             ELSE apply_manual(rows, man, i + 1, kmap)

\* ------------------------------------------------------------------------
\* normalize_activos.py: plan_replacements
\* ------------------------------------------------------------------------
\* slug of normalize_activos: only the letters a-z are kept
normalize_slug(s) ==
    LET f == Fold(Strip(s))
    IN  JoinSplit([i \in 1..Len(f) |-> IF IsAlpha(f[i]) \/ f[i] = " " THEN f[i] ELSE " "])

\* the rows of riesgos.csv load_canonical of normalize_activos keeps
\* (lines 54-59), with their slugs
NormUsable(rows) ==
    LET S == [i \in 1..Len(rows) |->
                 [d |-> Strip(rows[i].d), m |-> Strip(rows[i].m)]]
        K == SelectSeq(S, LAMBDA r : r.d # << >> /\ r.m # << >>)
    IN  [i \in 1..Len(K) |->
            [d |-> K[i].d, m |-> K[i].m,
             ds |-> normalize_slug(K[i].d), ms |-> normalize_slug(K[i].m)]]

\* mapping[key] = (depto, muni): the last row of a key wins
NormMapping(u) ==
    [k \in {<< u[i].ds, u[i].ms >> : i \in 1..Len(u)} |->
        LET last == CHOOSE i \in 1..Len(u) :
                       /\ << u[i].ds, u[i].ms >> = k
                       /\ \A j \in 1..Len(u) : << u[j].ds, u[j].ms >> = k => j <= i
        IN  << u[last].d, u[last].m >>]

\* depto_slug_to_name[dslug] = depto: the last row of a slug wins
NormDeptNames(u) ==
    [s \in {u[i].ds : i \in 1..Len(u)} |->
        LET last == CHOOSE i \in 1..Len(u) :
                       /\ u[i].ds = s
                       /\ \A j \in 1..Len(u) : u[j].ds = s => j <= i
        IN  u[last].d]

\* muni_global_index.setdefault(slug(muni), []).append((depto, muni))
NormGlobalIndex(u) ==
    [s \in {u[i].ms : i \in 1..Len(u)} |->
        LET sel == SelectSeq(u, LAMBDA r : r.ms = s)
        IN  [i \in 1..Len(sel) |-> << sel[i].d, sel[i].m >>]]

\* load_canonical of normalize_activos
normalize_load_canonical(rows) ==
    [mapping |-> NormMapping(NormUsable(rows)),
     muni_by_depto |-> MuniByDept(NormUsable(rows)),
     depto_slug_to_name |-> NormDeptNames(NormUsable(rows)),
     muni_global_index |-> NormGlobalIndex(NormUsable(rows))]

\* an entry of the replacements list: (idx, (depto, muni), (cdep, cmun),
\* reason)
Rep(ln, depto, muni, cdep, cmun, reason) ==
    [ln |-> ln, od |-> depto, om |-> muni, nd |-> cdep, nm |-> cmun,
     reason |-> reason]

\* what one row adds to replacements and to missing
Plan(reps, miss) == [reps |-> reps, miss |-> miss]
NoPlan == Plan(<< >>, << >>)

\* lines 107-112: the key is in the exact index
PlanExact(ln, depto, muni, e) ==
    IF e[1] # depto \/ e[2] # muni
    THEN Plan(<< Rep(ln, depto, muni, e[1], e[2], "normalize") >>, << >>)
    ELSE NoPlan

\* lines 118-122: the department slug is matched when it has no pool
PlanDeptFuzzy(dslug, dmatch, mbd) ==
    IF dmatch # << >> THEN << dmatch[1], Pool(mbd, dmatch[1]) >>
    ELSE << dslug, << >> >>

\* lines 114-122: the department slug in force and its pool
PlanDept(dslug, mbd, names) ==
    IF Pool(mbd, dslug) = << >> /\ DOMAIN names # {}
    THEN PlanDeptFuzzy(dslug, get_close_matches(dslug, KeyList(names), 8, 10), mbd)
    ELSE << dslug, Pool(mbd, dslug) >>

\* lines 125-137: the texts first (cutoff 0.8), then the slugs (0.85)
PlanSlugMatch(muni, candidates, slugs) ==
    BackToCandidate(candidates, slugs,
                    get_close_matches(normalize_slug(muni), slugs, 85, 100))

PlanBestIn(muni, candidates, matches) ==
    IF matches # << >> THEN matches
    ELSE PlanSlugMatch(muni, candidates,
                       [i \in 1..Len(candidates) |-> normalize_slug(candidates[i])])

\* lines 123-137: best, a sequence of at most one candidate
PlanBest(muni, candidates) ==
    IF candidates = << >> THEN << >>
    ELSE PlanBestIn(muni, candidates, get_close_matches(muni, candidates, 8, 10))

\* lines 138-143: canon.get(key2, (depto, muni))
PlanFuzzyTo(ln, depto, muni, c) ==
    IF c # << depto, muni >>
    THEN Plan(<< Rep(ln, depto, muni, c[1], c[2], "fuzzy") >>, << >>)
    ELSE NoPlan

PlanFuzzy(ln, depto, muni, key2, cn) ==
    PlanFuzzyTo(ln, depto, muni,
                IF key2 \in DOMAIN cn THEN cn[key2] ELSE << depto, muni >>)

\* lines 159-161
PlanMissing(ln, depto, muni) == Plan(<< >>, << << ln, depto, muni >> >>)

\* lines 149-158: the only pair of the matched slug
PlanGlobalPick(ln, depto, muni, pairs) ==
    IF Len(pairs) = 1
    THEN IF pairs[1] # << depto, muni >>
         THEN Plan(<< Rep(ln, depto, muni, pairs[1][1], pairs[1][2], "global") >>,
                   << >>)
         ELSE NoPlan
    ELSE PlanMissing(ln, depto, muni)

PlanGlobalOf(ln, depto, muni, gidx, gm) ==
    IF gm # << >> THEN PlanGlobalPick(ln, depto, muni, gidx[gm[1]])
    ELSE PlanMissing(ln, depto, muni)

\* lines 144-161: the global municipality index, department ignored
PlanGlobal(ln, depto, muni, gidx) ==
    PlanGlobalOf(ln, depto, muni, gidx,
                 get_close_matches(normalize_slug(muni), KeyList(gidx), 9, 10))

PlanWith(ln, depto, muni, dslug, best, cn, gidx) ==
    IF best # << >>
    THEN PlanFuzzy(ln, depto, muni, << dslug, normalize_slug(best[1]) >>, cn)
    ELSE PlanGlobal(ln, depto, muni, gidx)

PlanIn(ln, depto, muni, dc, cn, gidx) ==
    PlanWith(ln, depto, muni, dc[1], PlanBest(muni, dc[2]), cn, gidx)

PlanPair(ln, depto, muni, key, cn, mbd, names, gidx) ==
    IF depto = << >> /\ muni = << >> THEN NoPlan
    ELSE IF key \in DOMAIN cn THEN PlanExact(ln, depto, muni, cn[key])
    ELSE PlanIn(ln, depto, muni, PlanDept(key[1], mbd, names), cn, gidx)

\* lines 101-161: the body of the row loop of plan_replacements, ln being
\* the line of the row in the file
plan_row(ln, row, cn, mbd, names, gidx) ==
    PlanPair(ln, Strip(row.dep), Strip(row.mun),
             << normalize_slug(Strip(row.dep)), normalize_slug(Strip(row.mun)) >>,
             cn, mbd, names, gidx)

\* ------------------------------------------------------------------------
\* Inputs: the files the scripts find on disk
\* ------------------------------------------------------------------------
N_Meta == <<"M", "e", "t", "a">>
N_META == <<"M", "E", "T", "A">>
N_Uribe == <<"U", "r", "i", "b", "e">>
N_URIBE == <<"U", "R", "I", "B", "E">>
N_uribe == <<"u", "r", "i", "b", "e">>
N_Urbe == <<"U", "r", "b", "e">>
N_Urive == <<"U", "r", "i", "v", "e">>
N_Cezar == <<"C", "e", "z", "a", "r">>
N_Nada == <<"N", "a", "d", "a">>
N_Ana == <<"A", "n", "a">>
N_Xyz == <<"X", "y", "z">>
N_MetaSp == <<"M", "e", "t", "a", " ">>

GRow(d, m, p) == [d |-> d, m |-> m, p |-> p]

\* riesgos.csv: a plain table (with a row the loaders skip), a table with
\* two spellings of one key, a table holding the source of an alias rule,
\* and a table with one municipality name in two departments
G_Plain ==
    << GRow(S_CesarAcc, S_Togui, "Colombia"), GRow(N_Meta, N_Uribe, "Colombia"),
       GRow(<< >>, S_Togui, "Colombia") >>

G_TwoSpellings ==
    << GRow(N_Meta, N_Uribe, "Colombia"), GRow(N_META, N_URIBE, "Guatemala") >>

G_AliasSource ==
    << GRow(S_Cesar, S_Togui, "Colombia"), GRow(N_Meta, N_Uribe, "Colombia") >>

G_TwoDepartments ==
    << GRow(S_CesarAcc, N_Uribe, "Colombia"), GRow(N_Meta, N_Uribe, "Colombia") >>

Gazetteers == { G_Plain, G_TwoSpellings, G_AliasSource, G_TwoDepartments }

\* the candidate rows a table is made of
Candidates ==
    << MkRow(1, S_Cesar, S_Togui, ""),
       MkRow(2, N_META, N_uribe, ""),
       MkRow(3, N_Meta, N_Urbe, "Peru"),
       MkRow(4, N_Cezar, S_Togui, ""),
       MkRow(5, << >>, S_Togui, ""),
       MkRow(6, S_Cesar, << >>, "Peru"),
       MkRow(7, N_Xyz, N_Uribe, ""),
       MkRow(8, N_Nada, N_Xyz, "Peru"),
       MkRow(9, N_Meta, N_Uribe, ""),
       MkRow(10, N_Ana, N_Urive, "") >>

\* the longest candidate table
MaxRows == 2

\* the members of a set of numbers in increasing order
Sorted(S) == CHOOSE q \in Orders(S) : \A i, j \in DOMAIN q : i < j => q[i] < q[j]

\* activos_riesgos.csv: at most MaxRows of the candidate rows, in order
Tables ==
    { [i \in 1..Cardinality(S) |-> Candidates[Sorted(S)[i]]] :
        S \in {T \in SUBSET (1..Len(Candidates)) : Cardinality(T) <= MaxRows} }

\* the files of a staged normalize_activos run: fewer gazetteers and
\* candidate rows, tables of the same lengths
StageGazetteers == { G_Plain, G_TwoSpellings }

StageRows == {1, 2, 4, 8, 9}

StageTables ==
    { [i \in 1..Cardinality(S) |-> Candidates[Sorted(S)[i]]] :
        S \in {T \in SUBSET StageRows : Cardinality(T) <= MaxRows} }

\* the greatest --offset and --apply given to normalize_activos
MaxOffset == 1
MaxApply == 2

\* activos_no_coincidencia.csv: no correction, or one for row 8
Manuals == { << >>, << [name |-> 8, dep |-> N_MetaSp, mun |-> N_uribe] >> }

Outcomes == {"sin cambio", "cambio", "no coincidencia"}

\* ------------------------------------------------------------------------
\* State
\* ------------------------------------------------------------------------
VARIABLES
    riesgos,            \* riesgos.csv
    activos,            \* activos_riesgos.csv
    manual,             \* apply_manual_and_recompare: the manual file read
    cmp_exists,         \* activos_riesgos_comparado.csv is on disk
    comparado,          \* its rows
    writer,             \* the script that wrote it last
    pc,                 \* the script that is running, or "idle"
    canon,              \* the exact index of the running script
    dept_slug_to_name,
    muni_by_dept,
    global_muni,
    all_pairs,
    rows_out,           \* fuzzy_normalize: rows to write
    cmp_rows,           \* apply_manual_and_recompare: rows in memory
    total, sc, ch, nc,  \* the counters of the running script
    ret,                \* the tuple the last finished script returned
    tiers,              \* the tier that decided each row of this run
    rerun,              \* fuzzy_normalize is reading its own output
    replacements,       \* plan_replacements: the replacements proposed
    missing,            \* plan_replacements: the rows left unmapped
    idx,                \* plan_replacements: the rows read
    rev_exists,         \* activos_riesgos_revisado.csv is on disk
    revisado,           \* its rows
    args,               \* normalize_activos __main__: --offset and --apply
    all_lines,          \* apply_replacements: the rows of the baseline read
    cols,               \* the tables whose header has the required columns
    error,              \* the exception that ended the last script, or ""
    s_in,               \* slug: the arguments of the calls
    s_out,              \* slug: the values returned
    db,                 \* risk_api: the Evaluation rows committed
    json_files,         \* risk_api: data/output_<ruta_id>.json, by ruta_id
    resp,               \* risk_api: the last request and its response
    prev,               \* risk_api: the request and response before it
    nreq,               \* risk_api: the requests answered
    manual_file,        \* the contents activos_no_coincidencia.csv may have
    sources,            \* news_collector: the sources configured, with their replies
    keywords,           \* news_collector: the keyword file
    municipalities,     \* news_collector: the municipalities of the summary
    articles,           \* news_collector: the articles fetched so far
    fetched,            \* news_collector: the sources asked so far
    report,             \* news_collector: what collect_risk_news returned
    DRIVERS_ENTRIES,    \* risk_api: the drivers catalogue in memory
    drivers_csv,        \* risk_api: data/drivers.csv
    ENABLE_DRIVERS_WRITE,
    _DRIVERS_LOCK,      \* risk_api: the client holding the lock, or 0
    calls,              \* risk_api: the requests of the clients of /drivers
    route_csv,          \* risk_api: the rows of data/ruta.csv
    route_before,       \* risk_api: its rows before the last apply request
    applied,            \* risk_api: the last apply request and its status
    applied_before,     \* risk_api: the apply request before it
    napply              \* risk_api: the apply requests answered

vars ==
    << riesgos, activos, manual, cmp_exists, comparado, writer, pc, canon,
       dept_slug_to_name, muni_by_dept, global_muni, all_pairs, rows_out,
       cmp_rows, total, sc, ch, nc, ret, tiers, rerun, replacements, missing,
       idx, rev_exists, revisado, args, all_lines, cols, error, s_in, s_out,
       db, json_files, resp, prev, nreq, manual_file, sources, keywords,
       municipalities, articles, fetched, report, DRIVERS_ENTRIES,
       drivers_csv, ENABLE_DRIVERS_WRITE, _DRIVERS_LOCK, calls, route_csv,
       route_before, applied, applied_before, napply >>

plan == << replacements, missing, idx >>
stage == << rev_exists, revisado, args, all_lines >>
\* what the scripts of the comparado table never touch
unit == << s_in, s_out >>
api == << db, json_files, resp, prev, nreq >>
news == << sources, keywords, municipalities, articles, fetched, report >>
drivers ==
    << DRIVERS_ENTRIES, drivers_csv, ENABLE_DRIVERS_WRITE, _DRIVERS_LOCK, calls >>
routes == << route_csv, route_before, applied, applied_before, napply >>
services == << news, drivers, routes >>
quiet == << stage, cols, unit, api, manual_file, services >>
rest == << quiet, error >>
files == << riesgos, activos >>
indices == << dept_slug_to_name, muni_by_dept, global_muni, all_pairs >>

\* both tables with a department and a municipality column
AllCols == [riesgos |-> TRUE, activos |-> TRUE]

\* the manual file is edited between the runs
AnyManual == manual_file = Manuals

\* no script has run
Fresh ==
    /\ manual = << >>
    /\ cmp_exists = FALSE
    /\ comparado = << >>
    /\ writer = "none"
    /\ pc = "idle"
    /\ canon = << >>
    /\ dept_slug_to_name = << >>
    /\ muni_by_dept = << >>
    /\ global_muni = << >>
    /\ all_pairs = << >>
    /\ rows_out = << >>
    /\ cmp_rows = << >>
    /\ total = 0 /\ sc = 0 /\ ch = 0 /\ nc = 0
    /\ ret = << >>
    /\ tiers = << >>
    /\ rerun = FALSE
    /\ replacements = << >>
    /\ missing = << >>
    /\ idx = 0
    /\ rev_exists = FALSE
    /\ revisado = << >>
    /\ args = << >>
    /\ all_lines = << >>
    /\ error = ""

\* no report of news is asked
NoNews ==
    /\ sources = << >> /\ keywords = << >> /\ municipalities = << >>
    /\ articles = << >> /\ fetched = 0 /\ report = << >>

\* no client of /drivers
NoDrivers ==
    /\ DRIVERS_ENTRIES = << >> /\ drivers_csv = << >>
    /\ ENABLE_DRIVERS_WRITE = FALSE /\ _DRIVERS_LOCK = 0
    /\ calls = << >>

\* no template is applied
NoRoutes ==
    /\ route_csv = << >> /\ route_before = << >>
    /\ applied = [status |-> 0] /\ applied_before = [status |-> 0]
    /\ napply = 0

\* the services other than POST /evaluate are not called
Offline == NoNews /\ NoDrivers /\ NoRoutes

\* no function is called on its own and the API has answered no request
NoResponse == [status |-> 0]
NoCall ==
    /\ s_in = << >> /\ s_out = << >>
    /\ db = {} /\ json_files = << >>
    /\ resp = NoResponse /\ prev = NoResponse /\ nreq = 0

Init ==
    /\ riesgos \in Gazetteers
    /\ activos \in Tables
    /\ cols = AllCols
    /\ Fresh
    /\ Offline
    /\ AnyManual
    /\ NoCall

\* a variant of the counters in which an unmatched row is not counted
Count_SkipUnmatched(r) ==
    /\ total' = total + 1
    /\ sc' = IF r.inc = "sc" THEN sc + 1 ELSE sc
    /\ ch' = IF r.inc = "ch" THEN ch + 1 ELSE ch
    /\ nc' = nc

\* the counters after a branch that increments inc
Count(r) ==
    /\ total' = total + 1
    /\ sc' = IF r.inc = "sc" THEN sc + 1 ELSE sc
    /\ ch' = IF r.inc = "ch" THEN ch + 1 ELSE ch
    /\ nc' = IF r.inc = "nc" THEN nc + 1 ELSE nc

\* the locals of a script are gone when an exception ends it
Raise(e) ==
    /\ error' = e
    /\ pc' = "idle"
    /\ canon' = << >>
    /\ dept_slug_to_name' = << >>
    /\ muni_by_dept' = << >>
    /\ global_muni' = << >>
    /\ all_pairs' = << >>
    /\ rows_out' = << >>
    /\ cmp_rows' = << >>
    /\ manual' = << >>
    /\ total' = 0 /\ sc' = 0 /\ ch' = 0 /\ nc' = 0
    /\ tiers' = << >>
    /\ rerun' = FALSE
    /\ UNCHANGED ret

\* the locals of a script are gone when it returns
Return ==
    /\ ret' = << total, sc, ch, nc >>
    /\ pc' = "idle"
    /\ canon' = << >>
    /\ dept_slug_to_name' = << >>
    /\ muni_by_dept' = << >>
    /\ global_muni' = << >>
    /\ all_pairs' = << >>
    /\ rows_out' = << >>
    /\ cmp_rows' = << >>
    /\ manual' = << >>
    /\ total' = 0 /\ sc' = 0 /\ ch' = 0 /\ nc' = 0
    /\ tiers' = << >>
    /\ rerun' = FALSE

\* ---- generar_comparado --------------------------------------------------
\* lines 50-81: load the index, open the output for writing
GenStart ==
    /\ pc = "idle"
    /\ IF ~cols.riesgos
       THEN \* cargar_canon, lines 37-38
            /\ error' = "RuntimeError"
            /\ UNCHANGED << pc, canon, cmp_exists, comparado, writer, ret >>
       ELSE /\ canon' = cargar_canon(riesgos)
            \* line 64 opens the output for writing, line 74 writes its header
            /\ cmp_exists' = TRUE
            /\ comparado' = << >>
            /\ writer' = "gen"
            /\ IF ~cols.activos
               THEN \* lines 80-81
                    /\ error' = "RuntimeError"
                    /\ UNCHANGED << pc, ret >>
               ELSE /\ error' = ""
                    /\ pc' = "gen"
                    /\ ret' = << >>
    /\ UNCHANGED << quiet, plan, files, manual, indices, rows_out, cmp_rows, total, sc, ch,
                    nc, tiers, rerun >>

\* lines 83-103: one row read, tagged and written
GenRow ==
    /\ pc = "gen"
    /\ total < Len(activos)
    /\ LET r == comparado_row(activos[total + 1], canon)
       IN  /\ comparado' = Append(comparado, r.row)
           /\ tiers' = Append(tiers, r.tier)
           /\ Count(r)
    /\ UNCHANGED << rest, plan, files, manual, cmp_exists, writer, pc, canon, indices,
                    rows_out, cmp_rows, ret, rerun >>

\* line 105
GenFinish ==
    /\ pc = "gen"
    /\ total = Len(activos)
    /\ Return
    /\ UNCHANGED << rest, plan, files, cmp_exists, comparado, writer >>

\* ---- fuzzy_normalize ----------------------------------------------------
\* lines 99-126: load the indices, open the comparado table
FuzzyStart ==
    /\ pc = "idle"
    /\ cmp_exists
    /\ IF ~cols.riesgos
       THEN \* load_canonical, lines 46-47
            /\ error' = "RuntimeError"
            /\ UNCHANGED << pc, canon, indices, rerun, ret >>
       ELSE \* lines 115-116 look the columns of the table up and go on
            /\ error' = ""
            /\ pc' = "fuzzy"
            /\ LET ix == load_canonical(riesgos)
               IN  /\ canon' = ix.mapping
                   /\ dept_slug_to_name' = ix.dept_slug_to_name
                   /\ muni_by_dept' = ix.muni_by_dept
                   /\ global_muni' = ix.global_muni
                   /\ all_pairs' \in AllPairsOrders(ix.mapping)
            /\ rerun' = (writer = "fuzzy")
            /\ ret' = << >>
    /\ UNCHANGED << quiet, plan, files, manual, cmp_exists, comparado, writer, rows_out,
                    cmp_rows, total, sc, ch, nc, tiers >>

\* the row loop after the body ran on a row: the row is appended, or the
\* exception of a failed subscript leaves the function
FuzzyStep(r) ==
    IF r.tier = "KeyError"
    THEN Raise("KeyError")
    ELSE /\ rows_out' = Append(rows_out, r.row)
         /\ tiers' = Append(tiers, r.tier)
         /\ Count(r)
         /\ UNCHANGED << error, manual, pc, canon, indices, cmp_rows, ret, rerun >>

\* lines 127-248: one row read and appended to rows_out
FuzzyRow ==
    /\ pc = "fuzzy"
    /\ total < Len(comparado)
    /\ FuzzyStep(fuzzy_row(comparado[total + 1], canon, dept_slug_to_name,
                            muni_by_dept, global_muni, all_pairs))
    /\ UNCHANGED << quiet, plan, files, cmp_exists, comparado, writer >>

\* lines 250-269: the table is rewritten from rows_out
FuzzyFinish ==
    /\ pc = "fuzzy"
    /\ total = Len(comparado)
    /\ comparado' = rows_out
    /\ writer' = "fuzzy"
    /\ Return
    /\ UNCHANGED << rest, plan, files, cmp_exists >>

\* ---- apply_manual_and_recompare -----------------------------------------
\* lines 69-109: load the index and the table, apply the manual file as
\* it is found on disk by this run
ApplyStart ==
    /\ pc = "idle"
    /\ cmp_exists
    /\ IF ~cols.riesgos
       THEN \* load_canon, lines 36-37
            /\ error' = "RuntimeError"
            /\ UNCHANGED << pc, canon, manual, cmp_rows, ret >>
       ELSE /\ error' = ""
            /\ pc' = "apply"
            /\ canon' = cargar_canon(riesgos)
            /\ manual' \in manual_file
            /\ cmp_rows' = apply_manual(comparado, manual', 1, cmp_key_map(comparado))
            /\ ret' = << >>
    /\ UNCHANGED << quiet, plan, files, cmp_exists, comparado, writer, indices, rows_out,
                    total, sc, ch, nc, tiers, rerun >>

\* lines 116-135: one row compared again, in place
ApplyRow ==
    /\ pc = "apply"
    /\ total < Len(cmp_rows)
    /\ LET r == recompare_row(cmp_rows[total + 1], canon)
       IN  /\ cmp_rows' = [cmp_rows EXCEPT ![total + 1] = r.row]
           /\ tiers' = Append(tiers, r.tier)
           /\ Count(r)
    /\ UNCHANGED << rest, plan, files, manual, cmp_exists, comparado, writer, pc, canon,
                    indices, rows_out, ret, rerun >>

\* lines 137-144: the table is rewritten from cmp_rows
ApplyFinish ==
    /\ pc = "apply"
    /\ total = Len(cmp_rows)
    /\ comparado' = cmp_rows
    /\ writer' = "apply"
    /\ Return
    /\ UNCHANGED << rest, plan, files, cmp_exists >>

\* ---- normalize_activos.plan_replacements --------------------------------
\* lines 87-99: load the indices (canon, muni_by_depto, depto_slug_to_name,
\* muni_global_index), open activos_riesgos.csv
PlanStart ==
    /\ pc = "idle"
    /\ IF ~cols.riesgos \/ ~cols.activos
       THEN \* load_canonical, lines 52-53; find_columns, lines 76-77
            /\ error' = "RuntimeError"
            /\ UNCHANGED << pc, canon, muni_by_dept, dept_slug_to_name, global_muni >>
       ELSE /\ error' = ""
            /\ pc' = "plan"
            /\ LET ix == normalize_load_canonical(riesgos)
               IN  /\ canon' = ix.mapping
                   /\ muni_by_dept' = ix.muni_by_depto
                   /\ dept_slug_to_name' = ix.depto_slug_to_name
                   /\ global_muni' = ix.muni_global_index
    /\ UNCHANGED << quiet, plan, files, manual, cmp_exists, comparado, writer, all_pairs,
                    rows_out, cmp_rows, total, sc, ch, nc, ret, tiers, rerun >>

\* the lists after a row: a row is added to missing once
PlanAdd(r) ==
    /\ replacements' = replacements \o r.reps
    /\ missing' = missing \o SelectSeq(r.miss,
                                LAMBDA x : \A k \in 1..Len(missing) : missing[k] # x)

\* lines 100-161: one row read; the header is line 1 of the file
PlanRow ==
    /\ pc = "plan"
    /\ idx < Len(activos)
    /\ PlanAdd(plan_row(idx + 2, activos[idx + 1], canon, muni_by_dept,
                        dept_slug_to_name, global_muni))
    /\ idx' = idx + 1
    /\ UNCHANGED << rest, files, manual, cmp_exists, comparado, writer, pc, canon,
                    indices, rows_out, cmp_rows, total, sc, ch, nc, ret, tiers,
                    rerun >>

\* lines 163-175: the proposals are listed and returned
PlanFinish ==
    /\ pc = "plan"
    /\ idx = Len(activos)
    /\ pc' = "idle"
    /\ canon' = << >>
    /\ dept_slug_to_name' = << >>
    /\ muni_by_dept' = << >>
    /\ global_muni' = << >>
    /\ replacements' = << >>
    /\ missing' = << >>
    /\ idx' = 0
    /\ UNCHANGED << rest, files, manual, cmp_exists, comparado, writer, all_pairs,
                    rows_out, cmp_rows, total, sc, ch, nc, ret, tiers, rerun >>

\* ---- normalize_activos.apply_replacements and __main__ -------------------
Min(x, y) == IF x <= y THEN x ELSE y

\* lines 180-181: the line numbers of the first up_to replacements and
\* their new pairs, the last replacement of a line winning
repl_map(reps, up_to) ==
    [ln \in {reps[k].ln : k \in 1..Min(up_to, Len(reps))} |->
        LET last == CHOOSE k \in 1..Min(up_to, Len(reps)) :
                       /\ reps[k].ln = ln
                       /\ \A j \in 1..Min(up_to, Len(reps)) : reps[j].ln = ln => j <= k
        IN  << reps[last].nd, reps[last].nm >>]

\* a variant that counts the data rows from 1
apply_rows_FromOne(rmap, base) ==
    [i \in 1..Len(base) |->
        IF i \in DOMAIN rmap
        THEN [base[i] EXCEPT !.dep = rmap[i][1], !.mun = rmap[i][2]]
        ELSE base[i]]

\* lines 207-214: the rows of the baseline written one by one, the header
\* being line 1; a row whose line is in idx_set takes its new pair
apply_rows(rmap, base) ==
    [i \in 1..Len(base) |->
        IF (i + 1) \in DOMAIN rmap
        THEN [base[i] EXCEPT !.dep = rmap[i + 1][1], !.mun = rmap[i + 1][2]]
        ELSE base[i]]

\* lines 178-215
apply_replacements(reps, up_to, base) == apply_rows(repl_map(reps, up_to), base)

\* line 83: the revised table when there is one, else the original
baseline_input == IF rev_exists THEN revisado ELSE activos

\* __main__ lines 494-498 with --apply n > 0: the first
\* min(offset + apply, len(repl)) replacements are applied to the baseline
\* and the result is written to activos_riesgos_revisado.csv
PlanApply ==
    /\ pc = "plan"
    /\ idx = Len(activos)
    /\ \E o \in 0..MaxOffset : \E n \in 1..MaxApply :
          /\ args' = [offset |-> o, apply |-> n]
          /\ revisado' = apply_replacements(replacements,
                                             Min(o + n, Len(replacements)),
                                             baseline_input)
    /\ all_lines' = baseline_input
    /\ rev_exists' = TRUE
    /\ pc' = "applied"
    /\ canon' = << >>
    /\ dept_slug_to_name' = << >>
    /\ muni_by_dept' = << >>
    /\ global_muni' = << >>
    /\ UNCHANGED << cols, error, unit, api, manual_file, services, plan, files, manual, cmp_exists, comparado, writer, all_pairs,
                    rows_out, cmp_rows, total, sc, ch, nc, ret, tiers, rerun >>

\* the script ends after line 498
MainExit ==
    /\ pc = "applied"
    /\ pc' = "idle"
    /\ replacements' = << >>
    /\ missing' = << >>
    /\ idx' = 0
    /\ args' = << >>
    /\ all_lines' = << >>
    /\ UNCHANGED << cols, error, unit, api, manual_file, services, rev_exists, revisado, files, manual, cmp_exists, comparado,
                    writer, canon, indices, rows_out, cmp_rows, total, sc, ch, nc,
                    ret, tiers, rerun >>

Next ==
    \/ GenStart \/ GenRow \/ GenFinish
    \/ FuzzyStart \/ FuzzyRow \/ FuzzyFinish
    \/ ApplyStart \/ ApplyRow \/ ApplyFinish
    \/ PlanStart \/ PlanRow \/ PlanFinish

Spec == Init /\ [][Next]_vars

\* the scripts with staged application of the proposals
InitStage ==
    /\ Init
    /\ riesgos \in StageGazetteers
    /\ activos \in StageTables

NextStage == Next \/ PlanApply \/ MainExit

SpecStage == InitStage /\ [][NextStage]_vars

\* the scripts over tables that may lack the required columns
ColsGazetteers == { G_Plain }

InitCols ==
    /\ riesgos \in ColsGazetteers
    /\ activos \in StageTables
    /\ cols \in [riesgos : BOOLEAN, activos : BOOLEAN]
    /\ Fresh
    /\ Offline
    /\ AnyManual
    /\ NoCall

SpecCols == InitCols /\ [][Next]_vars

\* ---- the scripts over a gazetteer with an alias target -------------------
N_Bolivar == <<"B", "o", "l", "i", "v", "a", "r">>

G_Cartagena ==
    << GRow(S_Bolivar, S_CartagenaDeIndias, "Colombia"),
       GRow(N_Meta, N_Uribe, "Colombia") >>

AliasGazetteers == { G_Cartagena, G_Plain }

AliasCandidates ==
    << MkRow(11, N_Bolivar, S_Cartagena, ""),
       MkRow(12, S_Bolivar, S_Cartagena, "Peru"),
       MkRow(13, N_Meta, S_Cartagena, ""),
       MkRow(9, N_Meta, N_Uribe, ""),
       MkRow(1, S_Cesar, S_Togui, "") >>

AliasTables ==
    { [i \in 1..Cardinality(S) |-> AliasCandidates[Sorted(S)[i]]] :
        S \in {T \in SUBSET (1..Len(AliasCandidates)) : Cardinality(T) <= MaxRows} }

InitAlias ==
    /\ riesgos \in AliasGazetteers
    /\ activos \in AliasTables
    /\ cols = AllCols
    /\ Fresh
    /\ Offline
    /\ AnyManual
    /\ NoCall

SpecAlias == InitAlias /\ [][Next]_vars

\* ---- the scripts with a manual file that stays as it is ------------------
InitManual ==
    /\ riesgos \in StageGazetteers
    /\ activos \in StageTables
    /\ cols = AllCols
    /\ Fresh
    /\ Offline
    /\ NoCall
    /\ \E m \in Manuals : manual_file = { m }

SpecManual == InitManual /\ [][Next]_vars

\* ---- slug on its own ----------------------------------------------------
MaxLen == 3

\* the characters of the texts: a letter, a capital, an accented letter,
\* a digit, a punctuation mark and the space
SlugAlphabet == {"a", "B", "e'", "1", ".", " "}

\* None, which is no text
None == << "None" >>

SlugTexts ==
    UNION { [1..n -> SlugAlphabet] : n \in 0..MaxLen } \cup { None }

\* the ways two texts differ: a text and the same text in lower case,
\* without its accents, without its punctuation, and with spaces added
\* around it and after each of its spaces
Lowered(s) ==
    [i \in 1..Len(s) |-> IF s[i] \in Capitals THEN ToLower[s[i]] ELSE s[i]]
Unaccented(s) ==
    [i \in 1..Len(s) |-> IF s[i] \in Accented THEN Deaccent[s[i]] ELSE s[i]]
Unpunctuated(s) == SelectSeq(s, LAMBDA c : c # ".")
RECURSIVE Spaced(_)
Spaced(s) ==
    IF s = << >> THEN << " " >>
    ELSE IF Head(s) = " " THEN << " ", " " >> \o Spaced(Tail(s))
    ELSE << Head(s) >> \o Spaced(Tail(s))
Kinds == {"case", "accents", "punctuation", "whitespace"}
Variant(s, kind) ==
    IF s = None THEN None
    ELSE CASE kind = "case" -> Lowered(s)
           [] kind = "accents" -> Unaccented(s)
           [] kind = "punctuation" -> Unpunctuated(s)
           [] kind = "whitespace" -> << " " >> \o Spaced(s)

\* (s or "") and "if s is None: return ''"
OrEmpty(s) == IF s = None THEN << >> ELSE s

InitSlug ==
    /\ riesgos = << >>
    /\ activos = << >>
    /\ cols = AllCols
    /\ Fresh
    /\ Offline
    /\ AnyManual
    /\ \E t \in SlugTexts : \E k \in Kinds :
          s_in = [x |-> t, y |-> Variant(t, k), kind |-> k]
    /\ s_out = << >>
    /\ db = {} /\ json_files = << >>
    /\ resp = NoResponse /\ prev = NoResponse /\ nreq = 0

\* slug of fuzzy_normalize_activos on the two texts and on its own result
SlugCall ==
    /\ s_in # << >>
    /\ s_out = << >>
    /\ s_out' = [fn |-> "fuzzy_normalize_activos.slug",
                 x |-> slug(OrEmpty(s_in.x)),
                 y |-> slug(OrEmpty(s_in.y)),
                 xx |-> slug(slug(OrEmpty(s_in.x)))]
    /\ UNCHANGED << s_in, api, manual_file, services, stage, cols, error, plan, files, manual, cmp_exists,
                    comparado, writer, pc, canon, indices, rows_out, cmp_rows,
                    total, sc, ch, nc, ret, tiers, rerun >>

\* slug of normalize_activos on the two texts and on its own result
NormSlugCall ==
    /\ s_in # << >>
    /\ s_out = << >>
    /\ s_out' = [fn |-> "normalize_activos.slug",
                 x |-> normalize_slug(OrEmpty(s_in.x)),
                 y |-> normalize_slug(OrEmpty(s_in.y)),
                 xx |-> normalize_slug(normalize_slug(OrEmpty(s_in.x)))]
    /\ UNCHANGED << s_in, api, manual_file, services, stage, cols, error, plan, files, manual, cmp_exists,
                    comparado, writer, pc, canon, indices, rows_out, cmp_rows,
                    total, sc, ch, nc, ret, tiers, rerun >>

NextSlug == SlugCall \/ NormSlugCall

SpecSlug == InitSlug /\ [][NextSlug]_vars

\* ------------------------------------------------------------------------
\* src/risk_api.py and src/db_handler.py: POST /evaluate
\* ------------------------------------------------------------------------
\* the city names of the requests; scores are in hundredths
A_Bogota == <<"B", "o", "g", "o", "t", "a">>
A_Cali == <<"C", "a", "l", "i">>
A_CaliPadded == <<" ", "C", "a", "l", "i", " ">>
A_Tunja == <<"T", "u", "n", "j", "a">>
A_Atlantis == <<"A", "t", "l", "a", "n", "t", "i", "s">>

\* line 170: the official risk map, loaded once from the CSV
CITY_RISK_MAP == (A_Bogota :> 70) @@ (A_Cali :> 40) @@ (A_Tunja :> 10)

\* the most cities of a request and the most requests sent
MaxCities == 2
MaxRequests == 2

\* CityRisk: risk_score is an optional float: no score, or one score
ClientScores == { << >>, << 95 >> }
CityRisk == [name : {A_Bogota, A_CaliPadded, A_Tunja, A_Atlantis},
             risk_score : ClientScores]

\* EvaluationRequest
EvaluationRequest ==
    [user_id : {"ana", "luis"}, platform : {"Teams"},
     cities : UNION { [1..n -> CityRisk] : n \in 0..MaxCities }]

\* lines 478-484, on hundredths; the score is the fraction num / den
classify_risk(num, den) ==
    IF num >= 70 * den THEN "High"
    ELSE IF num >= 40 * den THEN "Medium"
    ELSE "Low"

\* a variant that takes the score the client sent when there is one
official_score_ClientFirst(city) ==
    IF city.risk_score # << >> THEN city.risk_score[1]
    ELSE CITY_RISK_MAP[Strip(city.name)]

\* line 600: the score of the official map, whatever the client sent
official_score(city) == CITY_RISK_MAP[Strip(city.name)]

\* lines 603-609: the result of one city
city_result(city) ==
    [name |-> Strip(city.name),
     risk_score |-> official_score(city),
     risk_level |-> classify_risk(official_score(city), 1)]

\* lines 584-610: the results of the cities, in request order
city_results(cities) == [i \in 1..Len(cities) |-> city_result(cities[i])]

\* line 610: the scores added up
RECURSIVE total_risk(_)
total_risk(results) ==
    IF results = << >> THEN 0
    ELSE total_risk(SubSeq(results, 1, Len(results) - 1))
           + results[Len(results)].risk_score

\* round(total / n, 2) in hundredths
Round(num, den) == (2 * num + den) \div (2 * den)

\* lines 619-637: the response body
Output(request, ruta_id, results) ==
    [ruta_id |-> ruta_id,
     executed_by |-> [user_id |-> request.user_id, platform |-> request.platform],
     cities |-> results,
     summary |-> [total_risk |-> total_risk(results),
                  average_risk |-> Round(total_risk(results), Len(results))],
     overall_level |-> classify_risk(total_risk(results), Len(results)),
     status |-> "PendingValidation"]

\* db_handler lines 136-161: the Evaluation row with its CityResult rows
EvaluationRow(evaluation) ==
    [id |-> evaluation.ruta_id,
     user_id |-> evaluation.executed_by.user_id,
     platform |-> evaluation.executed_by.platform,
     overall_level |-> evaluation.overall_level,
     total_risk |-> evaluation.summary.total_risk,
     average_risk |-> evaluation.summary.average_risk,
     status |-> evaluation.status,
     cities |-> [i \in 1..Len(evaluation.cities) |->
                   [evaluation_id |-> evaluation.ruta_id,
                    name |-> evaluation.cities[i].name,
                    risk_score |-> evaluation.cities[i].risk_score,
                    risk_level |-> evaluation.cities[i].risk_level]]]

\* what the database and the disk do to a save
IoOutcomes == {"ok", "db_error", "json_error"}

\* a variant that logs a failed JSON backup and returns
save_JsonFirst(evaluation, io) ==
    [rows |-> IF io = "db_error" THEN {} ELSE { EvaluationRow(evaluation) },
     files |-> IF io = "json_error" THEN {} ELSE { evaluation.ruta_id },
     raised |-> io # "ok"]

save_SwallowJsonError(evaluation, io) ==
    [rows |-> IF io = "db_error" THEN {} ELSE { EvaluationRow(evaluation) },
     files |-> IF io = "ok" THEN { evaluation.ruta_id } ELSE {},
     raised |-> io = "db_error"]

\* db_handler lines 123-198: the commit of the rows, then the JSON file;
\* a failure of either is raised, the commit of the rows is not undone
save_evaluation_to_db_and_json(evaluation, io) ==
    [rows |-> IF io = "db_error" THEN {} ELSE { EvaluationRow(evaluation) },
     files |-> IF io = "ok" THEN { evaluation.ruta_id } ELSE {},
     raised |-> io # "ok"]

\* the answer to a request
Response(request, status, body) ==
    [status |-> status, request |-> request, body |-> body]

\* lines 572-574 and 588-598: the requests refused with 400
BadRequest(request) ==
    \/ request.cities = << >>
    \/ \E i \in 1..Len(request.cities) :
          Strip(request.cities[i].name) \notin DOMAIN CITY_RISK_MAP

\* lines 640-694: the save, and 200 with the body or 500
Saved(request, output, saved) ==
    /\ db' = db \cup saved.rows
    /\ json_files' =
          [id \in DOMAIN json_files \cup saved.files |->
              IF id \in saved.files THEN output ELSE json_files[id]]
    /\ resp' = IF saved.raised THEN Response(request, 500, << >>)
               ELSE Response(request, 200, output)

\* lines 563-696: one request; the uuid of the route is fresh
evaluate_risk(request, io) ==
    IF BadRequest(request)
    THEN /\ resp' = Response(request, 400, << >>)
         /\ UNCHANGED << db, json_files >>
    ELSE Saved(request,
               Output(request, nreq + 1, city_results(request.cities)),
               save_evaluation_to_db_and_json(
                   Output(request, nreq + 1, city_results(request.cities)), io))

Evaluate ==
    /\ nreq < MaxRequests
    /\ \E request \in EvaluationRequest : \E io \in IoOutcomes :
          evaluate_risk(request, io)
    /\ prev' = resp
    /\ nreq' = nreq + 1
    /\ UNCHANGED << unit, manual_file, services, stage, cols, error, plan, files, manual, cmp_exists,
                    comparado, writer, pc, canon, indices, rows_out, cmp_rows,
                    total, sc, ch, nc, ret, tiers, rerun >>

InitApi ==
    /\ riesgos = << >>
    /\ activos = << >>
    /\ cols = AllCols
    /\ Fresh
    /\ Offline
    /\ AnyManual
    /\ NoCall

SpecApi == InitApi /\ [][Evaluate]_vars

\* ------------------------------------------------------------------------
\* news_collector.py: the report of news by municipality
\* ------------------------------------------------------------------------
\* line 430: the window of the report, in hours
time_window == 48

\* the hour at which the report is asked
now == 2 * time_window

\* lines 309-318
_normalize_text(value) == Fold(value)

\* needle in text, of two str
Within(needle, text) ==
    \E i \in 0..(Len(text) - Len(needle)) :
        SubSeq(text, i + 1, i + Len(needle)) = needle

S_Tulua == <<"T", "u", "l", "u", "a'">>
S_paro == <<"p", "a", "r", "o">>
S_Robo == <<"R", "o", "b", "o">>
S_Oe == <<"o/">>
S_ParoCALI == <<"P", "a", "r", "o", " ", "C", "A", "L", "I">>
S_elparo == <<"e", "l", " ", "p", "a", "r", "o">>
S_tulua == <<"t", "u", "l", "u", "a">>

\* the entries of the payload of a source: ok is FALSE for an entry that
\* is no object or whose title, url, date or content cannot be read
I_ParoCali ==
    [ok |-> TRUE, title |-> S_ParoCALI, url |-> 1, published_at |-> now - 1,
     content |-> S_Robo]
I_Tulua ==
    [ok |-> TRUE, title |-> S_tulua, url |-> 2,
     published_at |-> now - time_window, content |-> S_elparo]
I_Old ==
    [ok |-> TRUE, title |-> S_ParoCALI, url |-> 3,
     published_at |-> now - time_window - 1, content |-> S_Robo]
I_CaliOnly ==
    [ok |-> TRUE, title |-> S_Cali, url |-> 4, published_at |-> now,
     content |-> << >>]
I_Bad ==
    [ok |-> FALSE, title |-> S_ParoCALI, url |-> 5, published_at |-> now,
     content |-> S_Robo]

\* what a source answers: an HTTP error, a body that is neither JSON nor
\* XML, a JSON body without the list_path, a JSON body whose list_path
\* holds no list, or a list of entries
Replies ==
    { [kind |-> "http_error", items |-> << >>],
      [kind |-> "garbage", items |-> << >>],
      [kind |-> "no_path", items |-> << >>],
      [kind |-> "not_list", items |-> << >>],
      [kind |-> "ok", items |-> << I_ParoCali, I_Bad, I_Old >>],
      [kind |-> "ok", items |-> << I_Tulua, I_CaliOnly >>] }

MaxSources == 2
SourceNames == [i \in 1..(MaxSources + 1) |-> i]
SourceLists ==
    UNION { [1..n -> {"json", "rss"} \X Replies] : n \in 0..MaxSources }
Configured(l) ==
    [i \in 1..Len(l) |->
        [name |-> SourceNames[i], type |-> l[i][1], reply |-> l[i][2]]]

KeywordFiles ==
    { << >>, << S_paro, S_Robo >>, << L_cali, S_Robo, S_paro >>,
      << S_Oe, S_paro >> }
Summaries == { << >>, << S_Cali >>, << S_Cali, S_Tulua >>, << S_Tulua, S_Cali >> }

\* lines 239-260 and 286-305: the NewsArticle of each entry that parses,
\* in the order of the payload
Normalized(source) ==
    LET good == SelectSeq(source.reply.items, LAMBDA it : it.ok)
    IN  [i \in 1..Len(good) |->
            [source |-> source.name, title |-> good[i].title,
             url |-> good[i].url, published_at |-> good[i].published_at,
             content |-> good[i].content]]

Fetched(list, raised) == [articles |-> list, raised |-> raised]

\* lines 218-306: httpx.HTTPError and ET.ParseError are caught; the
\* response.json() of line 270 is under no try
_fetch_articles_from_source(source) ==
    IF source.reply.kind = "http_error" THEN Fetched(<< >>, FALSE)
    ELSE IF source.type = "rss"
         THEN IF source.reply.kind = "ok"
              THEN Fetched(Normalized(source), FALSE)
              ELSE Fetched(<< >>, FALSE)
    ELSE IF source.reply.kind = "garbage" THEN Fetched(<< >>, TRUE)
    ELSE IF source.reply.kind \in {"no_path", "not_list"}
         THEN Fetched(<< >>, FALSE)
    ELSE Fetched(Normalized(source), FALSE)

\* lines 392-394: the article names the municipality
Mentions(article, municipality) ==
    \/ Within(_normalize_text(municipality), _normalize_text(article.content))
    \/ Within(_normalize_text(municipality), _normalize_text(article.title))

Hits_CityCounts(article, municipality, kws) ==
    { k \in 1..Len(kws) :
        /\ _normalize_text(kws[k]) # << >>
        /\ \/ Within(_normalize_text(kws[k]), _normalize_text(article.content))
           \/ Within(_normalize_text(kws[k]), _normalize_text(article.title)) }

\* lines 395-400: the keywords looked for in the article, by position
Hits(article, municipality, kws) ==
    { k \in 1..Len(kws) :
        /\ _normalize_text(kws[k]) # << >>
        /\ _normalize_text(kws[k]) # _normalize_text(municipality)
        /\ \/ Within(_normalize_text(kws[k]), _normalize_text(article.content))
           \/ Within(_normalize_text(kws[k]), _normalize_text(article.title)) }

First(S) == CHOOSE k \in S : \A j \in S : k <= j

\* lines 401-411: the entry appended, with the keyword as it is in the file
NewsEntry(article, keyword) ==
    [source |-> article.source, title |-> article.title, url |-> article.url,
     published_at |-> article.published_at, matched_keyword |-> keyword]

\* lines 387-412: the articles that give an entry to a municipality
Matched(list, municipality, kws) ==
    SelectSeq(list, LAMBDA a :
        /\ ~(a.published_at < now - time_window)
        /\ Mentions(a, municipality)
        /\ Hits(a, municipality, kws) # {})

\* lines 367-413
_match_articles(list, names, kws) ==
    [m \in {names[i] : i \in 1..Len(names)} |->
        [i \in 1..Len(Matched(list, m, kws)) |->
            NewsEntry(Matched(list, m, kws)[i],
                      kws[First(Hits(Matched(list, m, kws)[i], m, kws))])]]

\* lines 483-496: one item per municipality, in the order of the summary
Items(names, matched) ==
    [i \in 1..Len(names) |->
        [municipality |-> names[i], news |-> matched[names[i]]]]

\* lines 473-476: the next source is asked; an exception of the fetch
\* leaves collect_risk_news
FetchSource ==
    /\ report = << >>
    /\ municipalities # << >>
    /\ fetched < Len(sources)
    /\ fetched' = fetched + 1
    /\ IF _fetch_articles_from_source(sources[fetched + 1]).raised
       THEN /\ report' = [error |-> "JSONDecodeError"]
            /\ UNCHANGED articles
       ELSE /\ articles' =
                  articles \o _fetch_articles_from_source(sources[fetched + 1]).articles
            /\ UNCHANGED report
    /\ UNCHANGED << sources, keywords, municipalities >>
    /\ UNCHANGED << drivers, routes, manual_file, stage, cols, unit, api, error, plan, files,
                    manual, cmp_exists, comparado, writer, pc, canon, indices,
                    rows_out, cmp_rows, total, sc, ch, nc, ret, tiers, rerun >>

\* lines 458-466 and 481-503: the report without items of a summary
\* without municipalities, or the report of the articles of all sources
Report ==
    /\ report = << >>
    /\ \/ municipalities = << >> /\ report' = [items |-> << >>]
       \/ /\ municipalities # << >>
          /\ fetched = Len(sources)
          /\ report' =
                [items |-> Items(municipalities,
                                 _match_articles(articles, municipalities, keywords))]
    /\ UNCHANGED << sources, keywords, municipalities, articles, fetched >>
    /\ UNCHANGED << drivers, routes, manual_file, stage, cols, unit, api, error, plan, files,
                    manual, cmp_exists, comparado, writer, pc, canon, indices,
                    rows_out, cmp_rows, total, sc, ch, nc, ret, tiers, rerun >>

InitNews ==
    /\ riesgos = << >>
    /\ activos = << >>
    /\ cols = AllCols
    /\ Fresh
    /\ AnyManual
    /\ NoCall
    /\ \E l \in SourceLists : sources = Configured(l)
    /\ keywords \in KeywordFiles
    /\ municipalities \in Summaries
    /\ articles = << >> /\ fetched = 0 /\ report = << >>
    /\ NoDrivers
    /\ NoRoutes

NextNews == FetchSource \/ Report

SpecNews == InitNews /\ [][NextNews]_vars

\* ------------------------------------------------------------------------
\* risk_api.py: POST /drivers and PUT /drivers
\* ------------------------------------------------------------------------
\* line 370-371
_digits(s) == SelectSeq(s, LAMBDA c : c \in Digits)

N_12 == <<"1", "2">>
N_1dash2 == <<"1", "-", "2">>
N_3 == <<"3">>
N_Blank == <<" ">>
N_AnaPadded == <<"A", "n", "a", " ">>
N_Luz == <<"L", "u", "z">>

\* lines 797-801; last_name and phone are left out of the requests
DriverRecord(national_id, first_name) ==
    [national_id |-> national_id, first_name |-> first_name]

\* the requests the clients send
DriverCalls ==
    { [op |-> "POST", driver |-> DriverRecord(N_12, N_Ana)],
      [op |-> "POST", driver |-> DriverRecord(N_1dash2, N_Luz)],
      [op |-> "POST", driver |-> DriverRecord(N_3, N_AnaPadded)],
      [op |-> "POST", driver |-> DriverRecord(N_Blank, N_Ana)],
      [op |-> "PUT", driver |-> DriverRecord(N_1dash2, N_AnaPadded)],
      [op |-> "PUT", driver |-> DriverRecord(N_12, N_Luz)],
      [op |-> "PUT", driver |-> DriverRecord(N_3, N_Luz)],
      [op |-> "PUT", driver |-> DriverRecord(N_Blank, N_Luz)] }

\* data/drivers.csv when the service starts
Catalogues ==
    { << >>,
      << DriverRecord(N_12, N_Ana) >>,
      << DriverRecord(N_1dash2, N_Ana), DriverRecord(N_3, N_Luz) >> }

MaxClients == 2
Clients == 1..MaxClients

\* a request that has not been sent
NotSent == [pc |-> "new"]

\* lines 819-824 and 858-863: the entry built from the request
Entry(driver) ==
    [national_id |-> Strip(driver.national_id),
     first_name |-> Strip(driver.first_name)]

\* lines 850-853: the positions of the entries with the digits of the id
Found(entries, driver) ==
    { i \in 1..Len(entries) :
        _digits(entries[i].national_id) = _digits(Strip(driver.national_id)) }

\* lines 305-330: the file is rewritten with the entries, or the write
\* fails before the file is opened, or after it was truncated
SaveOutcomes == {"ok", "denied", "torn"}
_save_drivers_entries(file, entries, io) ==
    IF io = "ok" THEN entries ELSE IF io = "denied" THEN file ELSE << >>

\* asyncio.Lock: free
Acquirable_Always(holder) == TRUE

Acquirable(holder) == holder = 0

\* the request of client r is over with this status
Over(r, status, after) ==
    calls' = [calls EXCEPT ![r] = [@ EXCEPT !.pc = "done", !.status = status,
                                              !.after = after]]

\* lines 803-811 and 838-846: the request arrives; 403 with the writes
\* disabled, 400 without a national_id, else it waits for the lock
RequestBy(r) ==
    /\ calls[r].pc = "new"
    /\ \E call \in DriverCalls :
          calls' = [calls EXCEPT ![r] =
              [pc |-> IF ENABLE_DRIVERS_WRITE /\ Strip(call.driver.national_id) # << >>
                      THEN "wait" ELSE "done",
               op |-> call.op, driver |-> call.driver,
               status |-> IF ~ENABLE_DRIVERS_WRITE THEN 403
                          ELSE IF Strip(call.driver.national_id) = << >> THEN 400
                          ELSE 0,
               before |-> DRIVERS_ENTRIES, after |-> DRIVERS_ENTRIES]]
    /\ UNCHANGED << DRIVERS_ENTRIES, drivers_csv, _DRIVERS_LOCK >>

\* lines 813-817 and 848-855: with the lock, the entry of the same digits
\* is looked for; 409 or 404 release the lock
LookupBy(r) ==
    /\ calls[r].pc = "wait"
    /\ Acquirable(_DRIVERS_LOCK)
    /\ IF calls[r].op = "POST" /\ Found(DRIVERS_ENTRIES, calls[r].driver) # {}
       THEN /\ calls' = [calls EXCEPT ![r] =
                   [@ EXCEPT !.pc = "done", !.status = 409,
                             !.before = DRIVERS_ENTRIES, !.after = DRIVERS_ENTRIES]]
            /\ UNCHANGED _DRIVERS_LOCK
       ELSE IF calls[r].op = "PUT" /\ Found(DRIVERS_ENTRIES, calls[r].driver) = {}
       THEN /\ calls' = [calls EXCEPT ![r] =
                   [@ EXCEPT !.pc = "done", !.status = 404,
                             !.before = DRIVERS_ENTRIES, !.after = DRIVERS_ENTRIES]]
            /\ UNCHANGED _DRIVERS_LOCK
       ELSE /\ calls' = [calls EXCEPT ![r] =
                   [@ EXCEPT !.pc = "in", !.before = DRIVERS_ENTRIES]]
            /\ _DRIVERS_LOCK' = r
    /\ UNCHANGED << DRIVERS_ENTRIES, drivers_csv >>

\* lines 825-835: the entry is appended and the file saved; a failed save
\* takes the entry out again
create_driver(r, io) ==
    /\ drivers_csv' =
          _save_drivers_entries(drivers_csv,
              Append(DRIVERS_ENTRIES, Entry(calls[r].driver)), io)
    /\ IF io = "ok"
       THEN /\ DRIVERS_ENTRIES' = Append(DRIVERS_ENTRIES, Entry(calls[r].driver))
            /\ Over(r, 201, Append(DRIVERS_ENTRIES, Entry(calls[r].driver)))
       ELSE /\ DRIVERS_ENTRIES' = DRIVERS_ENTRIES
            /\ Over(r, 500, DRIVERS_ENTRIES)

\* lines 857-871: the first entry found is replaced and the file saved
Replaced(entries, i, driver) == [entries EXCEPT ![i] = Entry(driver)]

update_driver(r, io) ==
    /\ DRIVERS_ENTRIES' =
          Replaced(DRIVERS_ENTRIES,
                   First(Found(DRIVERS_ENTRIES, calls[r].driver)), calls[r].driver)
    /\ drivers_csv' = _save_drivers_entries(drivers_csv, DRIVERS_ENTRIES', io)
    /\ Over(r, IF io = "ok" THEN 200 ELSE 500, DRIVERS_ENTRIES')

\* the rest of the block under the lock
WriteBy(r) ==
    /\ calls[r].pc = "in"
    /\ \E io \in SaveOutcomes :
          IF calls[r].op = "POST" THEN create_driver(r, io)
          ELSE update_driver(r, io)
    /\ _DRIVERS_LOCK' = 0

InitDrivers ==
    /\ riesgos = << >>
    /\ activos = << >>
    /\ cols = AllCols
    /\ Fresh
    /\ AnyManual
    /\ NoCall
    /\ NoNews
    /\ DRIVERS_ENTRIES \in Catalogues
    /\ drivers_csv = DRIVERS_ENTRIES
    /\ ENABLE_DRIVERS_WRITE \in BOOLEAN
    /\ _DRIVERS_LOCK = 0
    /\ calls = [r \in Clients |-> NotSent]
    /\ NoRoutes

\* what the requests of /drivers leave alone
DriversFrame ==
    UNCHANGED << ENABLE_DRIVERS_WRITE, news, routes, manual_file, stage, cols, unit,
                 api, error, plan, files, manual, cmp_exists, comparado,
                 writer, pc, canon, indices, rows_out, cmp_rows, total, sc,
                 ch, nc, ret, tiers, rerun >>

DriverRequest == DriversFrame /\ \E r \in Clients : RequestBy(r)
DriverLookup == DriversFrame /\ \E r \in Clients : LookupBy(r)
DriverWrite == DriversFrame /\ \E r \in Clients : WriteBy(r)

NextDrivers == DriverRequest \/ DriverLookup \/ DriverWrite

SpecDrivers == InitDrivers /\ [][NextDrivers]_vars

\* ------------------------------------------------------------------------
\* risk_api.py: POST /templates/{template_id}/apply
\* ------------------------------------------------------------------------
D_Mon == <<"M", "o", "n">>
D_Tue == <<"T", "u", "e">>
D_Wed == <<"W", "e", "d">>
D_Thu == <<"T", "h", "u">>
D_Fri == <<"F", "r", "i">>
D_Sat == <<"S", "a", "t">>
D_Sun == <<"S", "u", "n">>
D_Lun == <<"L", "u", "n">>
D_Mar == <<"M", "a", "r">>
D_Mie == <<"M", "i", "e">>
D_MieAcc == <<"M", "i", "e'">>
D_Jue == <<"J", "u", "e">>
D_Vie == <<"V", "i", "e">>
D_Sab == <<"S", "a", "b">>
D_SabAcc == <<"S", "a'", "b">>
D_Dom == <<"D", "o", "m">>
D_ViePadded == <<" ", "V", "i", "e">>
D_mon == <<"m", "o", "n">>

\* lines 952-955
WeekdayMapping ==
    (D_Mon :> 0) @@ (D_Tue :> 1) @@ (D_Wed :> 2) @@ (D_Thu :> 3) @@
    (D_Fri :> 4) @@ (D_Sat :> 5) @@ (D_Sun :> 6) @@
    (D_Lun :> 0) @@ (D_Mar :> 1) @@ (D_Mie :> 2) @@ (D_MieAcc :> 2) @@
    (D_Jue :> 3) @@ (D_Vie :> 4) @@ (D_Sab :> 5) @@ (D_SabAcc :> 5) @@
    (D_Dom :> 6)

\* lines 951-959: the index of the day, or -1 for the ValueError
_weekday_index(dw) ==
    IF Strip(dw) \in DOMAIN WeekdayMapping THEN WeekdayMapping[Strip(dw)]
    ELSE -1

\* lines 1038-1040: the dates are numbered by day
_week_dates(week_start) == [i \in 1..7 |-> week_start + (i - 1)]

\* str() of the segment_index of a segment
IntStr == (1 :> "1") @@ (2 :> "2")

Segment(i, origin, dest) ==
    [segment_index |-> i, origin_municipio |-> origin, dest_municipio |-> dest]
TemplateDay(dw, segments) == [day_of_week |-> dw, segments |-> segments]

\* data/templates/<template_id>.json
TemplateFiles ==
    ("week" :> << TemplateDay(D_Mon, << Segment(1, A_Bogota, A_Cali) >>),
                  TemplateDay(D_ViePadded, << Segment(1, A_Cali, A_Tunja),
                                              Segment(2, A_Tunja, A_Cali) >>) >>) @@
    ("twice" :> << TemplateDay(D_Lun, << Segment(1, A_Tunja, A_Cali) >>),
                   TemplateDay(D_Mon, << Segment(2, A_Cali, A_Tunja) >>) >>) @@
    ("badday" :> << TemplateDay(D_Mon, << Segment(1, A_Bogota, A_Cali) >>),
                    TemplateDay(D_mon, << Segment(1, A_Cali, A_Tunja) >>) >>) @@
    ("badcity" :> << TemplateDay(D_Dom, << Segment(1, A_Bogota, A_CaliPadded) >>) >>) @@
    ("empty" :> << >>)

\* a row of data/ruta.csv
RouteRow(date, user_id, segment_index, origin, dest) ==
    [date |-> date, user_id |-> user_id, segment_index |-> segment_index,
     origin_municipio |-> origin, dest_municipio |-> dest]

\* data/ruta.csv before the first request
RouteFiles ==
    { << >>,
      << RouteRow(1, "ana", "1", A_Tunja, A_Bogota),
         RouteRow(5, "luis", "1", A_Cali, A_Bogota),
         RouteRow(8, "ana", "2", A_Bogota, A_Tunja),
         RouteRow(7, "ana", "1", A_Cali, A_Cali) >> }

ApplyTemplateRequest ==
    [template_id : DOMAIN TemplateFiles \cup {"none"}, week_start : {1, 8},
     user_id : {"ana", "luis"}, evaluate : BOOLEAN]

\* lines 1051-1059: the rows kept, without those of the user in the week
Existing_KeepOtherUsersOnly(rows, req) ==
    SelectSeq(rows, LAMBDA row : row.user_id # req.user_id)

Existing(rows, req) ==
    SelectSeq(rows, LAMBDA row :
        ~(/\ row.user_id = req.user_id
          /\ \E i \in 1..7 : row.date = _week_dates(req.week_start)[i]))

\* lines 1068-1106: the rows of one day of the template
DayRows(day, req) ==
    [k \in 1..Len(day.segments) |->
        RouteRow(_week_dates(req.week_start)[_weekday_index(day.day_of_week) + 1],
                 req.user_id, IntStr[day.segments[k].segment_index],
                 day.segments[k].origin_municipio,
                 day.segments[k].dest_municipio)]

\* lines 1061-1106
RECURSIVE Expanded(_, _)
Expanded(days, req) ==
    IF days = << >> THEN << >>
    ELSE DayRows(Head(days), req) \o Expanded(Tail(days), req)

\* lines 1063-1066 and 1069-1072: the 400 of a day or of a city
Rejected(days) ==
    \E d \in 1..Len(days) :
        \/ _weekday_index(days[d].day_of_week) < 0
        \/ \E k \in 1..Len(days[d].segments) :
              \/ days[d].segments[k].origin_municipio \notin DOMAIN CITY_RISK_MAP
              \/ days[d].segments[k].dest_municipio \notin DOMAIN CITY_RISK_MAP

\* lines 1117-1119: the rows that open a date, in the order of the rows
Grouped(rows) ==
    { i \in 1..Len(rows) : \A j \in 1..(i - 1) : rows[j].date # rows[i].date }

Kth(S, k) == CHOOSE x \in S : Cardinality({ y \in S : y < x }) = k - 1

\* lines 1120-1145: the evaluation of the k-th date, as evaluate_day saves it
DayEvaluation(rows, req, k) ==
    [id |-> nreq + k, user_id |-> req.user_id,
     planned_date |-> rows[Kth(Grouped(rows), k)].date]

\* lines 1115-1146: the days are evaluated in turn until a save fails;
\* good is the number of days saved, io the outcome of the day after them
EvaluateDays(rows, req, good, io) ==
    /\ db' = db \cup { DayEvaluation(rows, req, k) : k \in 1..good }
                \cup (IF io = "json_error"
                      THEN { DayEvaluation(rows, req, good + 1) } ELSE {})
    /\ json_files' =
          [id \in DOMAIN json_files \cup { nreq + k : k \in 1..good } |->
              IF id \in DOMAIN json_files THEN json_files[id]
              ELSE DayEvaluation(rows, req, id - nreq)]
    /\ nreq' = nreq + good + (IF io = "ok" THEN 0 ELSE 1)

\* the request and its answer
Applied(req, status) == [status |-> status, request |-> req]

\* lines 1042-1148
apply_template(req) ==
    IF req.template_id \notin DOMAIN TemplateFiles
    THEN /\ applied' = Applied(req, 404)
         /\ UNCHANGED << route_csv, db, json_files, nreq >>
    ELSE IF Rejected(TemplateFiles[req.template_id])
    THEN /\ applied' = Applied(req, 400)
         /\ UNCHANGED << route_csv, db, json_files, nreq >>
    ELSE /\ route_csv' = Existing(route_csv, req)
                           \o Expanded(TemplateFiles[req.template_id], req)
         /\ IF req.evaluate
            THEN \E good \in 0..Cardinality(Grouped(Expanded(TemplateFiles[req.template_id], req))) :
                 \E io \in IoOutcomes :
                    /\ io = "ok" <=>
                          good = Cardinality(Grouped(Expanded(TemplateFiles[req.template_id], req)))
                    /\ EvaluateDays(Expanded(TemplateFiles[req.template_id], req), req, good, io)
                    /\ applied' = Applied(req, IF io = "ok" THEN 200 ELSE 500)
            ELSE /\ applied' = Applied(req, 200)
                 /\ UNCHANGED << db, json_files, nreq >>

MaxApplies == 2

ApplyTemplate ==
    /\ napply < MaxApplies
    /\ \E req \in ApplyTemplateRequest : apply_template(req)
    /\ route_before' = route_csv
    /\ applied_before' = applied
    /\ napply' = napply + 1
    /\ UNCHANGED << resp, prev, unit, news, drivers, manual_file, stage, cols,
                    error, plan, files, manual, cmp_exists, comparado, writer,
                    pc, canon, indices, rows_out, cmp_rows, total, sc, ch, nc,
                    ret, tiers, rerun >>

InitTemplates ==
    /\ riesgos = << >>
    /\ activos = << >>
    /\ cols = AllCols
    /\ Fresh
    /\ AnyManual
    /\ NoCall
    /\ NoNews
    /\ NoDrivers
    /\ route_csv \in RouteFiles
    /\ route_before = route_csv
    /\ applied = NoResponse /\ applied_before = NoResponse
    /\ napply = 0

SpecTemplates == InitTemplates /\ [][ApplyTemplate]_vars

\* ------------------------------------------------------------------------
\* Properties
\* ------------------------------------------------------------------------
\* rows of the running fuzzy_normalize that went through the row loop; row
\* i was read from comparado[i] and appended as rows_out[i]
FuzzyDone == IF pc = "fuzzy" THEN 1..Len(rows_out) ELSE {}

RawDep(i) == Strip(comparado[i].dep)
RawMun(i) == Strip(comparado[i].mun)

\* the gazetteer rows the loaders keep
GazRows == Usable(riesgos)

\* the number of rows of a table tagged with an outcome
Tagged(rows, o) == Cardinality({i \in 1..Len(rows) : rows[i].cmp = o})

\* C1: every driver tags each processed row with one of the three
\* outcomes, and its counters add up: total = sin_cambio + cambio +
\* no_coincidencia after every row, and the returned tuple counts the rows
\* of the written table by tag.
C1_CountersAddUp ==
    /\ total = sc + ch + nc
    /\ ret # << >> =>
          /\ ret[1] = ret[2] + ret[3] + ret[4]
          /\ ret[1] = Len(comparado)
          /\ \A i \in 1..Len(comparado) : comparado[i].cmp \in Outcomes
          /\ ret[2] = Tagged(comparado, "sin cambio")
          /\ ret[3] = Tagged(comparado, "cambio")
          /\ ret[4] = Tagged(comparado, "no coincidencia")

\* a fuzzy_normalize run returned with rows of two different outcomes
C1_Witness ==
    /\ ret # << >>
    /\ writer = "fuzzy"
    /\ ret[3] >= 1
    /\ ret[4] >= 1

\* C2 (as claimed): reconciling the pair of any gazetteer row with
\* non-empty fields yields 'sin cambio' and the triple of that row.
C2_EveryGazetteerRowUnchanged ==
    \A i \in FuzzyDone : \A g \in 1..Len(GazRows) :
       (comparado[i].dep = GazRows[g].d /\ comparado[i].mun = GazRows[g].m) =>
          /\ rows_out[i].cmp = "sin cambio"
          /\ rows_out[i].dep = GazRows[g].d
          /\ rows_out[i].mun = GazRows[g].m
          /\ rows_out[i].pais = GazRows[g].p

\* C3 (as claimed): a candidate whose slugs are the key of an entry of the
\* exact index but whose texts differ from the entry's ends 'cambio' with
\* the department, municipality and country of that entry.
C3_SlugVariantChanged ==
    \A i \in FuzzyDone :
       LET key == << slug(RawDep(i)), slug(RawMun(i)) >>
       IN  (key \in DOMAIN canon
              /\ (RawDep(i) # canon[key][1] \/ RawMun(i) # canon[key][2])) =>
              /\ rows_out[i].cmp = "cambio"
              /\ rows_out[i].dep = canon[key][1]
              /\ rows_out[i].mun = canon[key][2]
              /\ rows_out[i].pais = canon[key][3]

\* C4 (as claimed): in the table a driver wrote, a row tagged 'cambio'
\* holds the department, municipality and country of an entry of the exact
\* index.
C4_ChangedRowsCanonical ==
    (pc = "idle" /\ cmp_exists) =>
       LET cn == cargar_canon(riesgos)
       IN  \A i \in 1..Len(comparado) :
              comparado[i].cmp = "cambio" =>
                 \E k \in DOMAIN cn :
                    cn[k] = << comparado[i].dep, comparado[i].mun, comparado[i].pais >>

C6_SecondRunIdempotent ==
    (pc = "fuzzy" /\ rerun) =>
       \A i \in FuzzyDone :
          /\ comparado[i].cmp \in {"cambio", "sin cambio"} =>
                rows_out[i].cmp = "sin cambio"
          /\ comparado[i].cmp = "no coincidencia" =>
                rows_out[i].cmp = "no coincidencia"

\* C7 (as claimed): a row whose department or municipality is empty ends
\* 'no coincidencia' without any tier deciding it.
C7_EmptyFieldUnmatched ==
    \A i \in FuzzyDone :
       (RawDep(i) = << >> \/ RawMun(i) = << >>) =>
          /\ rows_out[i].cmp = "no coincidencia"
          /\ tiers[i] = "none"

\* C8 (as claimed): 'sin cambio' leaves the department and municipality of
\* the row as read; 'cambio' changes at least one of department,
\* municipality and country and leaves a (department, municipality) pair
\* that is a row of the gazetteer.
C8_OutcomeInvariant ==
    \A i \in FuzzyDone :
       /\ rows_out[i].cmp = "sin cambio" =>
             /\ rows_out[i].dep = comparado[i].dep
             /\ rows_out[i].mun = comparado[i].mun
       /\ rows_out[i].cmp = "cambio" =>
             /\ \/ rows_out[i].dep # comparado[i].dep
                \/ rows_out[i].mun # comparado[i].mun
                \/ rows_out[i].pais # comparado[i].pais
             /\ \E g \in 1..Len(GazRows) :
                   /\ GazRows[g].d = rows_out[i].dep
                   /\ GazRows[g].m = rows_out[i].mun

\* the gazetteer rows whose municipality has the slug of a text, by the
\* slug of fuzzy_normalize_activos and by the slug of normalize_activos
SameMuniSlug(m) == {g \in 1..Len(GazRows) : GazRows[g].ms = slug(m)}

NormSameMuniSlug(m) ==
    {g \in 1..Len(GazRows) : normalize_slug(GazRows[g].m) = normalize_slug(m)}

\* C9: a row decided by the global-unique-municipality tier, in
\* fuzzy_normalize and in plan_replacements, is resolved to a municipality
\* whose slug is held by exactly one gazetteer row, and to that row; a slug
\* held by rows of two or more departments is never picked by that tier.
C9_GlobalTierOnlyUnique ==
    /\ \A i \in FuzzyDone :
          tiers[i] = "global" =>
             /\ Cardinality(SameMuniSlug(rows_out[i].mun)) = 1
             /\ \E g \in SameMuniSlug(rows_out[i].mun) :
                   /\ rows_out[i].dep = GazRows[g].d
                   /\ rows_out[i].mun = GazRows[g].m
                   /\ rows_out[i].pais = GazRows[g].p
    /\ \A r \in 1..Len(replacements) :
          replacements[r].reason = "global" =>
             /\ Cardinality(NormSameMuniSlug(replacements[r].nm)) = 1
             /\ \E g \in NormSameMuniSlug(replacements[r].nm) :
                   /\ replacements[r].nd = GazRows[g].d
                   /\ replacements[r].nm = GazRows[g].m

\* a row with a department unknown to the gazetteer was resolved by the
\* global-unique-municipality tier
C9_Witness ==
    \E i \in FuzzyDone :
       /\ tiers[i] = "global"
       /\ RawDep(i) # << >>
       /\ rows_out[i].cmp = "cambio"

\* the entries of the exact index and the scores of row i against them
Entries == {canon[k] : k \in DOMAIN canon}

RowScore(i, e) ==
    LET a == apply_alias(RawDep(i), RawMun(i))
    IN  Score(ratio(slug(a[2]), slug(e[2])), ratio(slug(a[1]), slug(e[1])))

IsMaxScore(i, e) == \A f \in Entries : ~ FracGT(RowScore(i, f), RowScore(i, e))

\* C10: a row that reaches the weighted fallback ends 'cambio' exactly
\* when the greatest score 0.65*sim(municipality) + 0.35*sim(department)
\* over the entries is at least 0.62, and then it takes the values of an
\* entry with that greatest score; otherwise it ends 'no coincidencia'.
C10_FallbackThreshold ==
    \A i \in FuzzyDone :
       tiers[i] \in {"fallback", "none"} =>
          LET good == \E e \in Entries : FracGE(RowScore(i, e), 62, 100)
          IN  /\ good <=> tiers[i] = "fallback"
              /\ tiers[i] = "fallback" =>
                    /\ rows_out[i].cmp = "cambio"
                    /\ \E e \in Entries :
                          /\ IsMaxScore(i, e)
                          /\ e = << rows_out[i].dep, rows_out[i].mun, rows_out[i].pais >>
              /\ tiers[i] = "none" => rows_out[i].cmp = "no coincidencia"

\* the fallback accepted an entry whose score is exactly 0.62
C10_Witness ==
    \E i \in FuzzyDone :
       /\ tiers[i] = "fallback"
       /\ \E e \in Entries :
             /\ IsMaxScore(i, e)
             /\ RowScore(i, e)[1] * 100 = 62 * RowScore(i, e)[2]

\* the tiers of fuzzy_normalize in the order of the row loop
TierOrder == << "exact", "samedept", "crossdept", "global", "fallback" >>

\* one tier tried alone on a row read, a being its aliased pair
TierAlone(t, row, a) ==
    CASE t = "exact" -> ExactTier(row, a[1], a[2], canon)
      [] t = "samedept" ->
            SameDeptTier(row, a[1], a[2], canon, dept_slug_to_name, muni_by_dept)
      [] t = "crossdept" ->
            CrossDeptTier(row, a[1], a[2], canon, dept_slug_to_name, muni_by_dept)
      [] t = "global" -> GlobalUniqueTier(row, a[2], global_muni)
      [] t = "fallback" -> FallbackTier(row, a[1], a[2], all_pairs)

TierOf(k, i) ==
    TierAlone(TierOrder[k], comparado[i], apply_alias(RawDep(i), RawMun(i)))

\* the texts of the row a replacement was proposed for
RepKey(r) == << normalize_slug(r.od), normalize_slug(r.om) >>

\* C11: the tiers run in the order exact, same-department, cross-department,
\* global-unique municipality, weighted fallback on the aliased pair, and
\* the first one that succeeds decides the row: a row is decided by tier k
\* exactly when tier k succeeds on it and no earlier tier does, and it is
\* written as that tier resolves it; in plan_replacements a fuzzy or global
\* proposal is made only for a pair the exact index does not hold, and a
\* global one only when the department pool gave no municipality.
C11_FirstSuccessWins ==
    /\ \A i \in FuzzyDone :
          /\ \A k \in 1..Len(TierOrder) :
                (TierOf(k, i).hit /\ \A j \in 1..(k - 1) : ~ TierOf(j, i).hit) =>
                   /\ tiers[i] = TierOrder[k]
                   /\ rows_out[i] = TierOf(k, i).row
          /\ (\A k \in 1..Len(TierOrder) : ~ TierOf(k, i).hit) =>
                tiers[i] = "none"
    /\ \A r \in 1..Len(replacements) :
          /\ replacements[r].reason \in {"fuzzy", "global"} =>
                RepKey(replacements[r]) \notin DOMAIN canon
          /\ replacements[r].reason = "global" =>
                PlanBest(replacements[r].om,
                         PlanDept(RepKey(replacements[r])[1], muni_by_dept,
                                  dept_slug_to_name)[2]) = << >>

\* a row was decided by the cross-department tier although the
\* global-unique-municipality tier succeeds on it too
C11_Witness ==
    \E i \in FuzzyDone :
       /\ tiers[i] = "crossdept"
       /\ ~ TierOf(1, i).hit
       /\ ~ TierOf(2, i).hit
       /\ TierOf(4, i).hit

\* the positions of the proposal list, from 0, that --offset and --apply
\* name
InRange(k) == args.offset <= k - 1 /\ k - 1 < args.offset + args.apply

\* C12 (as claimed): a run with --offset and --apply N applies the
\* proposals at positions [offset, offset + N) of the list to the written
\* table and leaves the rows of every other proposal as the baseline had
\* them.
C12_OnlyRangeApplied ==
    pc = "applied" =>
       \A k \in 1..Len(replacements) :
          LET i == replacements[k].ln - 1
          IN  IF InRange(k)
              THEN /\ revisado[i].dep = replacements[k].nd
                   /\ revisado[i].mun = replacements[k].nm
              ELSE revisado[i] = all_lines[i]

\* C13: when the gazetteer or the candidate table lacks a department or a
\* municipality column, no script gets to its rows and no output file is
\* created, truncated or written
C13_FailFast ==
    (~cols.riesgos \/ ~cols.activos) =>
        /\ pc = "idle"
        /\ ~cmp_exists
        /\ ~rev_exists

\* C14: with the required columns present, no subscript of canon made by
\* fuzzy_normalize misses: the key of every municipality of a pool under
\* the display name of its department is in canon, and no run is ended by
\* a KeyError
C14_LookupsHit ==
    /\ error # "KeyError"
    /\ pc = "fuzzy" =>
          \A ds \in DOMAIN muni_by_dept :
             /\ ds \in DOMAIN dept_slug_to_name
             /\ \A i \in 1..Len(muni_by_dept[ds]) :
                   << slug(dept_slug_to_name[ds]), slug(muni_by_dept[ds][i]) >>
                      \in DOMAIN canon

\* a run reached its last row with a row decided by a fuzzy match inside
\* a department and a row with an empty department or municipality
C14_Witness ==
    /\ pc = "fuzzy"
    /\ total = Len(comparado)
    /\ \E i \in 1..total : tiers[i] \in {"samedept", "crossdept"}
    /\ \E i \in 1..total : RawDep(i) = << >> \/ RawMun(i) = << >>

\* C15: slug returns the empty text for None and for the empty text, is
\* idempotent, and returns the same slug for two texts that differ only
\* in letter case, accents, punctuation or surrounding and repeated
\* whitespace
C15_SlugContract ==
    s_out # << >> =>
        /\ (s_in.x \in { None, << >> } => s_out.x = << >>)
        /\ s_out.xx = s_out.x
        /\ s_out.y = s_out.x

\* the gazetteer rows with a department and a municipality, and the slug
\* function of the loader that is running
GazKept ==
    {i \in 1..Len(riesgos) :
        Strip(riesgos[i].d) # << >> /\ Strip(riesgos[i].m) # << >>}
RunSlug(t) == IF pc = "plan" THEN normalize_slug(t) ELSE slug(t)
DSlugOf(i) == RunSlug(Strip(riesgos[i].d))
MSlugOf(i) == RunSlug(Strip(riesgos[i].m))
KeyOf(i) == << DSlugOf(i), MSlugOf(i) >>

\* C16: the exact index of a loader holds, under each canonical key, the
\* last gazetteer row of the key; the department-slug-to-name map holds,
\* under each department slug, the name of the first row of the slug; and
\* rows with an empty department or municipality are in no index
C16_LoaderIndexes ==
    pc \in {"fuzzy", "plan"} =>
        /\ DOMAIN canon = {KeyOf(i) : i \in GazKept}
        /\ DOMAIN dept_slug_to_name = {DSlugOf(i) : i \in GazKept}
        /\ DOMAIN muni_by_dept = {DSlugOf(i) : i \in GazKept}
        /\ DOMAIN global_muni = {MSlugOf(i) : i \in GazKept}
        /\ \A i \in GazKept :
              (\A j \in GazKept : KeyOf(j) = KeyOf(i) => j <= i) =>
                  /\ canon[KeyOf(i)][1] = Strip(riesgos[i].d)
                  /\ canon[KeyOf(i)][2] = Strip(riesgos[i].m)
        /\ \A i \in GazKept :
              (\A j \in GazKept : DSlugOf(j) = DSlugOf(i) => i <= j) =>
                  dept_slug_to_name[DSlugOf(i)] = Strip(riesgos[i].d)

\* the key of the raw pair of row i, and of the target of the Cartagena rule
RawKey(i) == << slug(RawDep(i)), slug(RawMun(i)) >>
CartagenaKey == << slug(S_Bolivar), slug(S_CartagenaDeIndias) >>

\* C17: the alias rules are applied to the raw pair before any tier: with
\* (Bolívar, Cartagena de Indias, Colombia) in the gazetteer the pair
\* (Bolivar, Cartagena) is decided by the exact tier on the alias target
\* and ends Changed with that triple, and a pair that matches no alias rule
\* is decided by the exact tier exactly when its own key is in the index,
\* and is Unchanged exactly when it is spelled as the entry of its own key
C17_AliasBeforeTiers ==
    \A i \in FuzzyDone :
        /\ ( /\ RawDep(i) = N_Bolivar
             /\ RawMun(i) = S_Cartagena
             /\ CartagenaKey \in DOMAIN canon
             /\ canon[CartagenaKey] = << S_Bolivar, S_CartagenaDeIndias, "Colombia" >> )
           => /\ tiers[i] = "exact"
              /\ rows_out[i].dep = S_Bolivar
              /\ rows_out[i].mun = S_CartagenaDeIndias
              /\ rows_out[i].pais = "Colombia"
              /\ rows_out[i].cmp = "cambio"
        /\ apply_alias(RawDep(i), RawMun(i)) = << RawDep(i), RawMun(i) >>
           => /\ tiers[i] = "exact" <=> RawKey(i) \in DOMAIN canon
              /\ rows_out[i].cmp = "sin cambio" <=>
                    /\ RawKey(i) \in DOMAIN canon
                    /\ canon[RawKey(i)][1] = RawDep(i)
                    /\ canon[RawKey(i)][2] = RawMun(i)

\* a run decided (Bolivar, Cartagena) against a gazetteer with the alias
\* target, and a row that matches no alias rule
C17_Witness ==
    /\ pc = "fuzzy"
    /\ CartagenaKey \in DOMAIN canon
    /\ \E i \in FuzzyDone : RawDep(i) = N_Bolivar /\ RawMun(i) = S_Cartagena
    /\ \E i \in FuzzyDone :
          apply_alias(RawDep(i), RawMun(i)) = << RawDep(i), RawMun(i) >>

\* the rows of out are the first rows of src, one for one and in order,
\* with the pass-through column untouched
NamesOf(rows) == [i \in 1..Len(rows) |-> rows[i].name]
RowsFollow(out, src) ==
    /\ Len(out) <= Len(src)
    /\ NamesOf(out) = SubSeq(NamesOf(src), 1, Len(out))
RowsMatch(out, src) == Len(out) = Len(src) /\ RowsFollow(out, src)

\* the line numbers apply_replacements was given a replacement for
AppliedLines ==
    {replacements[k].ln :
        k \in 1..Min(args.offset + args.apply, Len(replacements))}

\* C18: every script writes one row per row read, in the order read, with
\* the pass-through column as read; apply_replacements writes the rows
\* that have no applied replacement as they were read
C18_RowsPreserved ==
    /\ pc = "gen" => RowsFollow(comparado, activos)
    /\ (cmp_exists /\ pc # "gen") => RowsMatch(comparado, activos)
    /\ pc = "fuzzy" => RowsFollow(rows_out, comparado)
    /\ pc = "apply" => RowsMatch(cmp_rows, comparado)
    /\ rev_exists => RowsMatch(revisado, activos)
    /\ pc = "applied" =>
          /\ RowsMatch(revisado, all_lines)
          /\ \A i \in 1..Len(all_lines) :
                (i + 1) \notin AppliedLines => revisado[i] = all_lines[i]

\* apply_replacements wrote a table of two rows, one rewritten by a
\* replacement and one without a replacement, after the comparado table
\* was written
C18_Witness ==
    /\ pc = "applied"
    /\ cmp_exists
    /\ Len(comparado) = 2
    /\ \E i \in 1..Len(all_lines) :
          (i + 1) \in AppliedLines /\ revisado[i] # all_lines[i]
    /\ \E i \in 1..Len(all_lines) : (i + 1) \notin AppliedLines

\* a request answered
Answered(r) == r.status # 0

\* C19: when POST /evaluate answers 200 with a ruta_id, an Evaluation row
\* with that id and the user_id of the request, with one CityResult row
\* per city of the request, is committed and the JSON backup of that
\* ruta_id is written; a request with no city or with a city that is not in
\* the official map is answered 400 and changes neither
C19_PersistedOn200 ==
    /\ (Answered(resp) /\ resp.status = 200) =>
          /\ \E e \in db :
                /\ e.id = resp.body.ruta_id
                /\ e.user_id = resp.request.user_id
                /\ Len(e.cities) = Len(resp.request.cities)
                /\ \A i \in 1..Len(e.cities) :
                      e.cities[i].evaluation_id = resp.body.ruta_id
          /\ resp.body.ruta_id \in DOMAIN json_files
          /\ json_files[resp.body.ruta_id].ruta_id = resp.body.ruta_id
    /\ Answered(resp) =>
          /\ BadRequest(resp.request) <=> resp.status = 400
          /\ resp.status = 400 =>
                /\ Cardinality(db) < nreq
                /\ \A e \in db : e.id # nreq
                /\ nreq \notin DOMAIN json_files

\* a request with two cities was answered 200 after a request was
\* answered 400
C19_Witness ==
    /\ Answered(prev) /\ prev.status = 400
    /\ resp.status = 200
    /\ Len(resp.request.cities) = 2

\* two requests that differ only in the risk_score values sent
OnlyScoresDiffer(r1, r2) ==
    /\ r1.user_id = r2.user_id
    /\ r1.platform = r2.platform
    /\ Len(r1.cities) = Len(r2.cities)
    /\ \A i \in 1..Len(r1.cities) : r1.cities[i].name = r2.cities[i].name

\* what the official map yields for the cities of a request
MapLevel(score) ==
    IF score >= 70 THEN "High" ELSE IF score >= 40 THEN "Medium" ELSE "Low"
MapScore(request, i) == CITY_RISK_MAP[Strip(request.cities[i].name)]
MapTotal(request) ==
    LET sum[i \in 0..Len(request.cities)] ==
            IF i = 0 THEN 0 ELSE sum[i - 1] + MapScore(request, i)
    IN  sum[Len(request.cities)]

WrittenKey(row) == << slug(row.dep), slug(row.mun) >>

\* C23: a row fuzzy_normalize writes with 'sin cambio' or 'cambio' holds,
\* in its department and municipality columns, the display strings the
\* exact index holds under the canonical key of the row
C23_MatchedRowsHoldIndexNames ==
    (pc = "fuzzy" /\ total = Len(comparado)) =>
        \A i \in 1..Len(rows_out) :
            rows_out[i].cmp \in {"sin cambio", "cambio"} =>
                /\ WrittenKey(rows_out[i]) \in DOMAIN canon
                /\ canon[WrittenKey(rows_out[i])][1] = rows_out[i].dep
                /\ canon[WrittenKey(rows_out[i])][2] = rows_out[i].mun

\* the row the weighted fallback leaves for row i when the flat entry list
\* is iterated in the order q
FallbackUnder(i, q) ==
    FallbackTier(comparado[i],
                 apply_alias(RawDep(i), RawMun(i))[1],
                 apply_alias(RawDep(i), RawMun(i))[2], q).row

\* C24: a row decided by the weighted global fallback is resolved to the
\* same gazetteer entry under every iteration order of the flat entry list
C24_FallbackOrderFree ==
    \A i \in FuzzyDone :
        tiers[i] = "fallback" =>
            \A q \in AllPairsOrders(canon) : FallbackUnder(i, q) = rows_out[i]

\* C25: slug of normalize_activos returns, for every text, what the slug
\* of the three other scripts returns
C25_OneSlug ==
    (s_out # << >> /\ s_out.fn = "normalize_activos.slug") =>
        /\ s_out.x = slug(OrEmpty(s_in.x))
        /\ s_out.y = slug(OrEmpty(s_in.y))

\* apply_manual_and_recompare went through every row of the table its own
\* last run wrote
SecondApply == pc = "apply" /\ writer = "apply" /\ total = Len(cmp_rows)

\* C26: with the gazetteer and the manual file as they were, a second run
\* of apply_manual_and_recompare leaves the department, municipality and
\* country of every row as the first run wrote them, counts no 'cambio'
\* and counts as many 'no coincidencia' as the first run
C26_SecondApplyIdempotent ==
    SecondApply =>
        /\ \A i \in 1..Len(cmp_rows) :
              /\ cmp_rows[i].dep = comparado[i].dep
              /\ cmp_rows[i].mun = comparado[i].mun
              /\ cmp_rows[i].pais = comparado[i].pais
        /\ ch = 0
        /\ nc = Tagged(comparado, "no coincidencia")


\* the request answered last failed at the commit of its rows
CommitFailed ==
    /\ Answered(resp) /\ resp.status = 500
    /\ \A e \in db : e.id # nreq

\* C30: the JSON backup is written only after the commit of the
\* evaluation: a request whose commit failed leaves no output file of its
\* ruta_id, and every output file that exists belongs to an evaluation
\* that has its row in the database
C30_JsonAfterCommit ==
    /\ \A id \in DOMAIN json_files : \E e \in db : e.id = id
    /\ CommitFailed => nreq \notin DOMAIN json_files

\* a commit failed after an earlier request was saved with its backup
C30_Witness ==
    /\ CommitFailed
    /\ prev.status = 200
    /\ prev.body.ruta_id \in DOMAIN json_files


\* collect_risk_news has returned its report
Reported == "items" \in DOMAIN report

\* the text of an article holds the folded text t
Holds(a, t) == Within(t, Fold(a.title)) \/ Within(t, Fold(a.content))

\* keyword k is found in article a and is not the name of municipality m
KeywordFound(k, a, m) ==
    /\ Fold(k) # << >>
    /\ Fold(k) # Fold(m)
    /\ Holds(a, Fold(k))

\* article a is recent, names municipality m and holds a keyword
Qualifies(a, m) ==
    /\ a.published_at >= now - time_window
    /\ Holds(a, Fold(m))
    /\ \E k \in 1..Len(keywords) : KeywordFound(keywords[k], a, m)

\* keyword k is the first keyword of the file found in article a
IsFirstFound(k, a, m) ==
    \E i \in 1..Len(keywords) :
        /\ keywords[i] = k
        /\ KeywordFound(k, a, m)
        /\ \A j \in 1..(i - 1) : ~KeywordFound(keywords[j], a, m)

\* entry e of the report is the entry of article a
EntryOf(e, a) ==
    /\ e.source = a.source /\ e.title = a.title
    /\ e.url = a.url /\ e.published_at = a.published_at

\* the entries listed under municipality m come from qualifying articles,
\* with the first keyword found, one entry at most for each article
ListedRight(m, listed) ==
    /\ \A j \in 1..Len(listed) :
          \E i \in 1..Len(articles) :
              /\ EntryOf(listed[j], articles[i])
              /\ Qualifies(articles[i], m)
              /\ IsFirstFound(listed[j].matched_keyword, articles[i], m)
    /\ Len(listed) <=
          Cardinality({ i \in 1..Len(articles) : Qualifies(articles[i], m) })

\* C21: in the news report, an article is listed under a municipality only
\* if it was published no earlier than now minus the time window, its
\* folded title or content holds the folded name of the municipality, and
\* it holds a configured keyword that is not the name of the municipality;
\* an article gives one entry at most to a municipality, with the first
\* keyword of the keyword file that is found, and a municipality without
\* such an article has an empty list
C21_ListedOnlyIfMatched ==
    Reported =>
        /\ Len(report.items) = Len(municipalities)
        /\ \A i \in 1..Len(report.items) :
              /\ report.items[i].municipality = municipalities[i]
              /\ ListedRight(municipalities[i], report.items[i].news)

\* a report with a municipality without news and a municipality whose
\* entry names the second keyword of the file, the first being its own
\* name, while an article older than the window was fetched
C21_Witness ==
    /\ Reported
    /\ \E i \in 1..Len(report.items) : report.items[i].news = << >>
    /\ \E i \in 1..Len(report.items) :
          /\ report.items[i].news # << >>
          /\ Fold(keywords[1]) = Fold(report.items[i].municipality)
          /\ report.items[i].news[1].matched_keyword = keywords[2]
    /\ \E i \in 1..Len(articles) :
          articles[i].published_at < now - time_window

\* the articles of the source of position i
ArticlesOf(i) ==
    { j \in 1..Len(articles) : articles[j].source = sources[i].name }

\* C22: a source that fails (HTTP error, body that cannot be parsed, wrong
\* list_path) contributes no article and never aborts collect_risk_news:
\* the other sources are still fetched, in the order of the configuration,
\* and their articles are in the report
C22_FailedSourceSkipped ==
    /\ "error" \notin DOMAIN report
    /\ \A i \in 1..fetched :
          sources[i].reply.kind # "ok" => ArticlesOf(i) = {}
    /\ (Reported /\ municipalities # << >>) =>
          /\ \A i \in 1..Len(sources) :
                sources[i].reply.kind = "ok" => ArticlesOf(i) # {}
          /\ \A j \in 1..(Len(articles) - 1) :
                articles[j].source <= articles[j + 1].source


\* the digits of a national_id
DigitsOf(s) == SelectSeq(s, LAMBDA c : c \in Digits)

\* no two entries with the same digits
NoTwin(entries) ==
    \A i, j \in 1..Len(entries) :
        i # j => DigitsOf(entries[i].national_id) # DigitsOf(entries[j].national_id)

\* the positions of the entries with the digits of the id of the driver
Known(entries, driver) ==
    { i \in 1..Len(entries) :
        DigitsOf(entries[i].national_id) = DigitsOf(driver.national_id) }

\* the request of client r went through the block under the lock
Served(r) == calls[r].pc = "done" /\ calls[r].status \notin {400, 403}

\* entry i of the catalogue, and no other, was rewritten for the driver
OnlyRewritten(before, after, i, driver) ==
    /\ Len(after) = Len(before)
    /\ after[i].national_id = Strip(driver.national_id)
    /\ after[i].first_name = Strip(driver.first_name)
    /\ \A j \in 1..Len(before) : j # i => after[j] = before[j]

\* C27: from a catalogue without two entries of the same digits of
\* national_id, after any interleaving of POST /drivers and PUT /drivers
\* requests the catalogue in memory still has no two such entries; a create
\* of digits that exist is answered 409 and adds nothing, an update of
\* digits that do not exist is answered 404 and changes nothing, and an
\* update rewrites one entry and no other
C27_DigitsStayUnique ==
    /\ NoTwin(DRIVERS_ENTRIES)
    /\ \A r \in Clients : Served(r) =>
          /\ calls[r].op = "POST" =>
                (Known(calls[r].before, calls[r].driver) # {} <=> calls[r].status = 409)
          /\ calls[r].op = "PUT" =>
                (Known(calls[r].before, calls[r].driver) = {} <=> calls[r].status = 404)
          /\ calls[r].status \in {404, 409} => calls[r].after = calls[r].before
          /\ (calls[r].op = "PUT" /\ calls[r].status # 404) =>
                \E i \in Known(calls[r].before, calls[r].driver) :
                    OnlyRewritten(calls[r].before, calls[r].after, i, calls[r].driver)

\* two clients asked to create the same digits written in two ways, one
\* got 201 and the other 409, or one updated an entry the other created
C27_Witness ==
    \E r, q \in Clients :
        /\ r # q
        /\ calls[r].pc = "done" /\ calls[r].status = 201
        /\ calls[q].pc = "done" /\ calls[q].status \in {409, 200}
        /\ calls[r].driver.national_id # calls[q].driver.national_id
        /\ DigitsOf(calls[r].driver.national_id) = DigitsOf(calls[q].driver.national_id)

\* C28: when the save of the drivers CSV fails the request is answered 500
\* and the catalogue in memory is left as it was before the request, for
\* POST /drivers and for PUT /drivers
C28_FailedSaveLeavesCatalogue ==
    \A r \in Clients :
        (calls[r].pc = "done" /\ calls[r].status = 500) =>
            calls[r].after = calls[r].before


\* the row belongs to the user of the request and to a date of its week
InWeek(row, req) ==
    /\ row.user_id = req.user_id
    /\ row.date \in req.week_start..(req.week_start + 6)

Others(rows, req) == SelectSeq(rows, LAMBDA row : ~InWeek(row, req))
Mine(rows, req) == SelectSeq(rows, LAMBDA row : InWeek(row, req))

\* the segments of a template, by day and position
SegmentsOf(days) ==
    UNION { { << d, k >> : k \in 1..Len(days[d].segments) } : d \in 1..Len(days) }

\* the row is the expansion of a segment of the template for the request
FromTemplate(row, days, req) ==
    \E p \in SegmentsOf(days) :
        /\ row.date = req.week_start + WeekdayMapping[Strip(days[p[1]].day_of_week)]
        /\ row.segment_index = IntStr[days[p[1]].segments[p[2]].segment_index]
        /\ row.origin_municipio = days[p[1]].segments[p[2]].origin_municipio
        /\ row.dest_municipio = days[p[1]].segments[p[2]].dest_municipio

\* the requests name the same template, week and user
SameApply(r1, r2) ==
    /\ r1.template_id = r2.template_id
    /\ r1.week_start = r2.week_start
    /\ r1.user_id = r2.user_id

\* the file after a successful apply of the template to the request
RewrittenRight(before, after, days, req) ==
    /\ after = Others(before, req) \o Mine(after, req)
    /\ Len(Mine(after, req)) = Cardinality(SegmentsOf(days))
    /\ \A i \in 1..Len(Mine(after, req)) :
          FromTemplate(Mine(after, req)[i], days, req)

\* C29: a successful POST /templates/{id}/apply leaves in the route file
\* the prior rows that are not of the requesting user in the 7 dates of the
\* week, in their order, followed by the rows expanded from the template,
\* so a second apply of the same template to the same week leaves the rows
\* of the first; a request refused with 404 or 400 leaves the file as it was
C29_ApplyRewritesOwnWeek ==
    napply > 0 =>
        /\ applied.status = 200 =>
              /\ RewrittenRight(route_before, route_csv,
                                TemplateFiles[applied.request.template_id],
                                applied.request)
              /\ (applied_before.status = 200
                  /\ SameApply(applied_before.request, applied.request)) =>
                     route_csv = route_before
        /\ applied.status \in {400, 404} => route_csv = route_before
        /\ applied.status = 404 <=>
              applied.request.template_id \notin DOMAIN TemplateFiles

\* the same template was applied twice to the same week of a user, over a
\* file that holds rows of the user outside the week and rows of another
\* user
C29_Witness ==
    /\ napply = 2
    /\ applied.status = 200 /\ applied_before.status = 200
    /\ SameApply(applied_before.request, applied.request)
    /\ Len(Mine(route_csv, applied.request)) = 3
    /\ \E i \in 1..Len(route_csv) :
          /\ route_csv[i].user_id = applied.request.user_id
          /\ ~InWeek(route_csv[i], applied.request)
    /\ \E i \in 1..Len(route_csv) :
          route_csv[i].user_id # applied.request.user_id

====
